---- MODULE Spec2Model ----
(***************************************************************************)
(* Sentinel AI governance gateway: policy engine (rule matching, risk      *)
(* scoring, decision derivation), circuit breaker (shadow / enforce mode,  *)
(* approval orchestration) and the policy cache they read.                 *)
(*                                                                         *)
(* Risk scores and modifiers are fixed-point numbers in hundredths:        *)
(* 85 stands for 0.85, 100 for 1.0.                                        *)
(* Text is a sequence of one-character strings.                            *)
(***************************************************************************)
EXTENDS Integers, Sequences, FiniteSets, TLC

\* ------------------------------------------------------------------ bounds
\* approval ids (uuid4) handed out in one behaviour
MaxApprovals == 1
\* request ids (uuid4) an arriving request may carry
MaxRequestIds == 2
\* largest value a rate-limit counter is driven to
MaxCount == 3
\* cache commands that raise during one call of refresh_policies, or
\* while writers work on the cache side by side
MaxRaises == 1

\* ---------------------------------------------------------------- settings
risk_score_block_threshold == 100
risk_score_approval_threshold == 80
\* TTL handed to store_pending_approval, seconds
ApprovalTtl == 86400
\* Settings.rate_limit_requests and Settings.rate_limit_window_seconds are
\* read from the environment (defaults 1000 and 60); the limiter is run
\* here with a quota of 2 requests per window of 2 clock ticks
rate_limit_requests == 2
rate_limit_window_seconds == 2

GatewayMode == {"SHADOW", "ENFORCE"}
DecisionType == {"allow", "deny", "pending_approval", "shadow_logged"}
RiskLevel == {"low", "medium", "high", "critical"}

\* -------------------------------------------------------------------- text
LowerChar(c) ==
  CASE c = "U" -> "u"
    [] c = "S" -> "s"
    [] c = "E" -> "e"
    [] c = "R" -> "r"
    [] OTHER -> c

\* a comparison of strings that keeps their case
keep_case(s) == s

\* str.lower()
Lower(s) == [i \in 1..Len(s) |-> LowerChar(s[i])]

\* Python's `t in s` on strings
IsSubstring(t, s) ==
  \E i \in 0..(Len(s) - Len(t)) : SubSeq(s, i + 1, i + Len(t)) = t

T_users == <<"u", "s", "e", "r", "s">>
T_payments == <<"p", "a", "y", "m", "e", "n", "t", "s">>
T_credentials == <<"c", "r", "e", "d", "e", "n", "t", "i", "a", "l", "s">>
\* target resources of the modelled requests: "orders", "USERS_v2", "user"
R_orders == <<"o", "r", "d", "e", "r", "s">>
R_USERS_v2 == <<"U", "S", "E", "R", "S", "_", "v", "2">>
R_user == <<"u", "s", "e", "r">>

\* ------------------------------------------------------------ JSON values
\* A leaf of request.parameters: absent key, a number, a clean string, a
\* string holding a PII entity, or a string whose entity has been masked.
Absent == [kind |-> "absent", num |-> 0]
NumV(n) == [kind |-> "num", num |-> n]
StrV == [kind |-> "str", num |-> 0]
PiiV == [kind |-> "pii", num |-> 0]
MaskedV == [kind |-> "masked", num |-> 0]

\* context.justification: absent, a string made of `lead` blanks, `body`
\* characters that start and end with a non-blank and `trail` blanks (kind
\* "pii" when the text holds a PII entity, "masked" once it is masked), or
\* a non-zero number
NoJust == [kind |-> "absent", lead |-> 0, body |-> 0, trail |-> 0]
TextJust(l, b, t) == [kind |-> "str", lead |-> l, body |-> b, trail |-> t]
PiiJust(l, b, t) == [kind |-> "pii", lead |-> l, body |-> b, trail |-> t]
NumJust == [kind |-> "num", lead |-> 0, body |-> 0, trail |-> 0]

\* the length of a justification measured without stripping it
len_unstripped(j) == j.lead + j.body + j.trail

\* len(s) and len(s.strip())
StrLen(j) == j.lead + j.body + j.trail
StripLen(j) == j.body

\* PIISanitizer.sanitize_text on a leaf: strings with an entity get masked,
\* every other leaf is returned as it is
sanitize_text(v) == IF v.kind = "pii" THEN [v EXCEPT !.kind = "masked"] ELSE v

\* PIISanitizer.sanitize_dict on request.parameters or request.context
sanitize_dict(params) == [k \in DOMAIN params |-> sanitize_text(params[k])]

\* ------------------------------------------------------------ policy rules
ConditionKeys ==
  {"max_amount", "protected_tables", "max_affected_rows",
   "require_justification", "region"}

\* PolicyRule.conditions: the keys of the mapping and the value under each
\* recognized key ("region" stands for a key the engine does not know)
NoConditions ==
  [keys |-> {}, max_amount |-> 0, protected_tables |-> <<>>,
   max_affected_rows |-> 0, require_justification |-> FALSE]
MaxAmountCond(n) ==
  [NoConditions EXCEPT !.keys = {"max_amount"}, !.max_amount = n]
ProtectedTablesCond(ts) ==
  [NoConditions EXCEPT !.keys = {"protected_tables"}, !.protected_tables = ts]
MaxAffectedRowsCond(n) ==
  [NoConditions EXCEPT !.keys = {"max_affected_rows"}, !.max_affected_rows = n]
RequireJustificationCond ==
  [NoConditions EXCEPT !.keys = {"require_justification"},
                       !.require_justification = TRUE]

PolicyRule(id, actions, conds, modifier, en, prio) ==
  [rule_id |-> id, action_types |-> actions, conditions |-> conds,
   risk_score_modifier |-> modifier, enabled |-> en, priority |-> prio]

\* PolicyEngine._default_policies, in the order of the list literal
DefaultPolicies ==
  << PolicyRule("refund_limit_500", {"refund"}, MaxAmountCond(500),
                100, TRUE, 10),
     PolicyRule("payment_limit_10000", {"payment"}, MaxAmountCond(10000),
                85, TRUE, 20),
     PolicyRule("admin_action_high_risk", {"admin_action"}, NoConditions,
                85, TRUE, 5),
     PolicyRule("user_data_access", {"user_data_access"},
                RequireJustificationCond, 30, TRUE, 30),
     PolicyRule("database_write_protection", {"database_write"},
                ProtectedTablesCond(<<T_users, T_payments, T_credentials>>),
                100, TRUE, 15),
     PolicyRule("bulk_operation_limit", {"database_write", "database_query"},
                MaxAffectedRowsCond(1000), 90, TRUE, 25) >>

\* Rules an operator stores in the cache through the policy endpoints
RuleIds == {"x", "y", "z"}
RuleUniverse ==
  { PolicyRule("x", {"database_write"}, NoConditions, 30, TRUE, p) :
      p \in {10, 20} }
  \cup { PolicyRule("x", {"database_write"}, NoConditions, 30, FALSE, 10) }
  \cup { PolicyRule("y", {"database_write"}, NoConditions, 90, TRUE, p) :
      p \in {10, 20} }
  \cup { PolicyRule("z", {"database_write", "database_query"},
                    MaxAffectedRowsCond(1000), -50, TRUE, p) :
      p \in {10, 15} }

\* the rule lists handed to refresh_policies: up to two rules
RefreshSets ==
  { G \in SUBSET { p \in RuleUniverse : p.priority = 10 } :
      /\ Cardinality(G) <= 2
      /\ \A p, q \in G : p.rule_id = q.rule_id => p = q }

\* a key that holds no value (expired, deleted or never set)
NoRule == PolicyRule("", {}, NoConditions, 0, FALSE, 0)

\* ---------------------------------------------------------------- requests
AgentRequest(id, action, target, amount, affected, lim, just) ==
  [request_id |-> id, action_type |-> action, target_resource |-> target,
   parameters |-> [amount |-> amount, affected_rows |-> affected,
                   limit |-> lim],
   context |-> [justification |-> just]]

RequestShapes ==
  { AgentRequest(0, a, R_orders, v, Absent, Absent, NoJust) :
      a \in {"refund", "payment"},
      v \in {Absent, NumV(100), NumV(750), NumV(20000), StrV, PiiV} }
  \cup { AgentRequest(0, "database_write", t, Absent, v, l, NoJust) :
      t \in {R_orders, R_USERS_v2, R_user},
      v \in {Absent, NumV(5000), StrV},
      l \in {Absent, NumV(2000)} }
  \cup { AgentRequest(0, "database_query", R_orders, Absent, v, l, NoJust) :
      v \in {Absent, NumV(5000), StrV},
      l \in {Absent, NumV(2000)} }
  \cup { AgentRequest(0, "user_data_access", R_orders, Absent, Absent,
                      Absent, j) :
      j \in {NoJust, TextJust(0, 0, 0), TextJust(0, 6, 0),
             TextJust(3, 6, 3), TextJust(0, 15, 0), PiiJust(0, 15, 0),
             NumJust} }
  \cup { AgentRequest(0, a, R_orders, Absent, Absent, Absent, NoJust) :
      a \in {"admin_action", "api_call"} }

Requests ==
  { [r EXCEPT !.request_id = id] : r \in RequestShapes, id \in 1..MaxRequestIds }

\* the shapes sent through the whole pipeline
PipelineShapes ==
  { AgentRequest(0, "refund", R_orders, NumV(750), Absent, Absent, NoJust),
    AgentRequest(0, "refund", R_orders, NumV(100), Absent, Absent, NoJust),
    AgentRequest(0, "payment", R_orders, NumV(20000), Absent, Absent, NoJust),
    AgentRequest(0, "payment", R_orders, PiiV, Absent, Absent, NoJust),
    AgentRequest(0, "admin_action", R_orders, Absent, Absent, Absent,
                 PiiJust(0, 15, 0)),
    AgentRequest(0, "user_data_access", R_orders, Absent, Absent, Absent,
                 TextJust(0, 6, 0)),
    AgentRequest(0, "database_write", R_USERS_v2, Absent, StrV, Absent,
                 NoJust),
    AgentRequest(0, "database_query", R_orders, Absent, StrV, Absent, NoJust),
    AgentRequest(0, "api_call", R_orders, Absent, Absent, Absent, NoJust) }

PipelineRequests ==
  { [r EXCEPT !.request_id = id] :
      r \in PipelineShapes, id \in 1..MaxRequestIds }

NoRequest == AgentRequest(0, "", <<>>, Absent, Absent, Absent, NoJust)

\* ----------------------------------------------------------- policy engine
\* outcome of one call of _evaluate_conditions: a (violation, reason) pair,
\* or an exception raised out of the call
Violation(kind, policy, a, b) ==
  [violation |-> TRUE, raised |-> FALSE,
   reason |-> [kind |-> kind, rule |-> policy.rule_id, a |-> a, b |-> b]]
NoViolation ==
  [violation |-> FALSE, raised |-> FALSE,
   reason |-> [kind |-> "", rule |-> "", a |-> 0, b |-> 0]]
Raised ==
  [violation |-> FALSE, raised |-> TRUE,
   reason |-> [kind |-> "", rule |-> "", a |-> 0, b |-> 0]]

\* dict.get(key, 0) followed by a use as a number
IsNumber(v) == v.kind \in {"num", "absent"}
NumberOf(v) == IF v.kind = "num" THEN v.num ELSE 0
Max2(a, b) == IF a >= b THEN a ELSE b

_evaluate_conditions(policy, request, sanitized_params) ==
  LET conditions == policy.conditions
      amount == sanitized_params.amount
      affected == sanitized_params.affected_rows
      lim == sanitized_params.limit
      justification == request.context.justification
      target == Lower(request.target_resource)
      tables == conditions.protected_tables
      hit == { i \in 1..Len(tables) : IsSubstring(Lower(tables[i]), target) }
      count == Max2(NumberOf(affected), NumberOf(lim))
  IN
  IF /\ "max_amount" \in conditions.keys
     /\ IsNumber(amount)
     /\ NumberOf(amount) > conditions.max_amount
  THEN Violation("amount", policy, NumberOf(amount), conditions.max_amount)
  ELSE IF "protected_tables" \in conditions.keys /\ hit # {}
  THEN Violation("protected_table", policy,
                 CHOOSE i \in hit : \A k \in hit : i <= k, 0)
  ELSE IF /\ "max_affected_rows" \in conditions.keys
          /\ ~(IsNumber(affected) /\ IsNumber(lim))
  THEN Raised   \* max() or > on a str and an int: TypeError
  ELSE IF /\ "max_affected_rows" \in conditions.keys
          /\ count > conditions.max_affected_rows
  THEN Violation("bulk", policy, count, conditions.max_affected_rows)
  ELSE IF /\ "require_justification" \in conditions.keys
          /\ conditions.require_justification
          /\ justification.kind = "num"
  THEN Raised   \* int has no strip(): AttributeError
  ELSE IF /\ "require_justification" \in conditions.keys
          /\ conditions.require_justification
          /\ \/ justification.kind = "absent"   \* .get(..., "") is falsy
             \/ StrLen(justification) = 0
             \/ StripLen(justification) < 10
  THEN Violation("justification", policy, 0, 0)
  ELSE IF conditions.keys = {}
  THEN Violation("flagged", policy, 0, 0)
  ELSE NoViolation

\* _calculate_risk_level with the critical band starting above 0.8
calculate_risk_level_strict(risk_score) ==
  IF risk_score > 80 THEN "critical"
  ELSE IF risk_score >= 50 THEN "high"
  ELSE IF risk_score >= 20 THEN "medium"
  ELSE "low"

_calculate_risk_level(risk_score) ==
  IF risk_score >= 80 THEN "critical"
  ELSE IF risk_score >= 50 THEN "high"
  ELSE IF risk_score >= 20 THEN "medium"
  ELSE "low"

\* _determine_decision blocking only above the block threshold
determine_decision_strict(risk_score, gateway_mode) ==
  IF risk_score > risk_score_block_threshold
  THEN IF gateway_mode = "SHADOW" THEN "shadow_logged" ELSE "deny"
  ELSE IF risk_score >= risk_score_approval_threshold
  THEN "pending_approval"
  ELSE "allow"

\* _determine_decision without the approval band
determine_decision_no_approval(risk_score, gateway_mode) ==
  IF risk_score >= risk_score_block_threshold
  THEN IF gateway_mode = "SHADOW" THEN "shadow_logged" ELSE "deny"
  ELSE "allow"

_determine_decision(risk_score, gateway_mode) ==
  IF risk_score >= risk_score_block_threshold
  THEN IF gateway_mode = "SHADOW" THEN "shadow_logged" ELSE "deny"
  ELSE IF risk_score >= risk_score_approval_threshold
  THEN "pending_approval"
  ELSE "allow"

\* the clamp without its lower bound: min(1.0, cumulative_risk)
ClampAbove(cumulative_risk) ==
  IF cumulative_risk > 100 THEN 100 ELSE cumulative_risk

\* min(1.0, max(0.0, cumulative_risk))
Clamp(cumulative_risk) ==
  IF cumulative_risk < 0 THEN 0
  ELSE IF cumulative_risk > 100 THEN 100 ELSE cumulative_risk

\* The for loop of evaluate over policies[i..]: acc carries matched_rules,
\* denial_reasons, cumulative_risk, the rules handed to _evaluate_conditions
\* so far and whether an exception has left the loop.
RECURSIVE MatchLoop(_, _, _, _, _)
MatchLoop(policies, i, request, sanitized_params, acc) ==
  IF i > Len(policies) \/ acc.raised THEN acc
  ELSE
    LET policy == policies[i] IN
    IF ~policy.enabled \/ request.action_type \notin policy.action_types
    THEN MatchLoop(policies, i + 1, request, sanitized_params, acc)
    ELSE
      LET r == _evaluate_conditions(policy, request, sanitized_params)
          seen == Append(acc.evaluated, policy.rule_id)
      IN
      IF r.raised
      THEN [acc EXCEPT !.raised = TRUE, !.evaluated = seen]
      ELSE IF r.violation
      THEN MatchLoop(policies, i + 1, request, sanitized_params,
             [acc EXCEPT !.matched_rules = Append(@, policy.rule_id),
                         !.denial_reasons = Append(@, r.reason),
                         !.cumulative_risk = @ + policy.risk_score_modifier,
                         !.evaluated = seen])
      ELSE MatchLoop(policies, i + 1, request, sanitized_params,
             [acc EXCEPT !.evaluated = seen])

\* the loop run from the first policy with the initial accumulators
Match(policies, request) ==
  MatchLoop(policies, 1, request, sanitize_dict(request.parameters),
    [matched_rules |-> <<>>, denial_reasons |-> <<>>,
     cumulative_risk |-> 0, evaluated |-> <<>>, raised |-> FALSE])

EvaluationError == [kind |-> "evaluation_error", rule |-> "", a |-> 0, b |-> 0]

\* evaluate whose except branch records no denial reason
evaluate_silent_failure(request, policies, gateway_mode) ==
  LET sanitized_params == sanitize_dict(request.parameters)
      acc == Match(policies, request)
      risk_score == Clamp(acc.cumulative_risk)
  IN
  [request_id |-> request.request_id,
   decision |-> IF acc.raised THEN "deny"
                ELSE _determine_decision(risk_score, gateway_mode),
   risk_score |-> IF acc.raised THEN 100 ELSE risk_score,
   risk_level |-> IF acc.raised THEN "critical"
                  ELSE _calculate_risk_level(risk_score),
   matched_rules |-> acc.matched_rules,
   denial_reasons |-> acc.denial_reasons,
   sanitized_request |->
     [parameters |-> sanitized_params,
      context |-> sanitize_dict(request.context),
      action_type |-> request.action_type,
      target_resource |-> request.target_resource]]

\* PolicyEngine.evaluate once get_active_policies has returned `policies`;
\* gateway_mode is settings.gateway_mode as _determine_decision reads it
evaluate(request, policies, gateway_mode) ==
  LET sanitized_params == sanitize_dict(request.parameters)
      sanitized_request ==
        [parameters |-> sanitized_params,
         context |-> sanitize_dict(request.context),
         action_type |-> request.action_type,
         target_resource |-> request.target_resource]
      acc == Match(policies, request)
      risk_score == Clamp(acc.cumulative_risk)
  IN
  IF acc.raised
  THEN [request_id |-> request.request_id,
        decision |-> "deny",
        risk_score |-> 100,
        risk_level |-> "critical",
        matched_rules |-> acc.matched_rules,
        denial_reasons |-> Append(acc.denial_reasons, EvaluationError),
        sanitized_request |-> sanitized_request]
  ELSE [request_id |-> request.request_id,
        decision |-> _determine_decision(risk_score, gateway_mode),
        risk_score |-> risk_score,
        risk_level |-> _calculate_risk_level(risk_score),
        matched_rules |-> acc.matched_rules,
        denial_reasons |-> acc.denial_reasons,
        sanitized_request |-> sanitized_request]

\* ------------------------------------------------------------ policy cache
\* sequences that list every member of the set S once: the orders in which
\* SMEMBERS may hand back the index
Orders(S) ==
  { o \in [1..Cardinality(S) -> S] :
      \A i, j \in 1..Cardinality(S) : i # j => o[i] # o[j] }

\* list.sort(key=lambda p: p.priority): stable, ascending
RECURSIVE SortByPriority(_)
SortByPriority(ps) ==
  IF ps = <<>> THEN <<>>
  ELSE
    LET front == SortByPriority(SubSeq(ps, 1, Len(ps) - 1))
        p == ps[Len(ps)]
        k == Cardinality({ i \in 1..Len(front) :
                             front[i].priority <= p.priority })
    IN SubSeq(front, 1, k) \o <<p>> \o SubSeq(front, k + 1, Len(front))

\* get_all_policies without the final sort
get_all_policies_unsorted(store, order) ==
  LET values == [i \in 1..Len(order) |-> store[order[i]]]
      IsActive(v) == v # NoRule /\ v.enabled
  IN SelectSeq(values, IsActive)

\* get_all_policies without the test of policy.enabled
get_all_policies_with_disabled(store, order) ==
  LET values == [i \in 1..Len(order) |-> store[order[i]]]
      IsStored(v) == v # NoRule
  IN SortByPriority(SelectSeq(values, IsStored))

\* RedisClient.get_all_policies when no command raises: `store` maps a rule
\* id to the value under its key, `order` is the SMEMBERS reply
get_all_policies(store, order) ==
  LET values == [i \in 1..Len(order) |-> store[order[i]]]
      IsActive(v) == v # NoRule /\ v.enabled
  IN SortByPriority(SelectSeq(values, IsActive))

\* what a call of get_all_policies returned and whether a command raised
Listing(raised, policies) == [raised |-> raised, policies |-> policies]

\* no call of get_all_policies has just ended
NoListing == [raised |-> FALSE, policies |-> <<NoRule>>]

\* RedisClient.store_policy on the cache (store, index): SETEX then SADD;
\* a command that raises ends the call in the except branch, which returns
\* False, and the commands before it keep their effect
store_policy(store, index, policy, outcome) ==
  [store |-> IF outcome = "setex_raises" THEN store
             ELSE [store EXCEPT ![policy.rule_id] = policy],
   index |-> IF outcome = "ok" THEN index \cup {policy.rule_id} ELSE index,
   returned |-> outcome = "ok"]

\* delete_policy without the SREM on the index
delete_policy_entry_only(store, index, rule_id, outcome) ==
  [store |-> IF outcome = "delete_raises" THEN store
             ELSE [store EXCEPT ![rule_id] = NoRule],
   index |-> index,
   returned |-> outcome = "ok"]

\* RedisClient.delete_policy: DEL then SREM, with the same failure handling
delete_policy(store, index, rule_id, outcome) ==
  [store |-> IF outcome = "delete_raises" THEN store
             ELSE [store EXCEPT ![rule_id] = NoRule],
   index |-> IF outcome = "ok" THEN index \ {rule_id} ELSE index,
   returned |-> outcome = "ok"]

\* RedisClient.get_policy: the value under the key, None (NoRule) when the
\* key is not there or GET raises
get_policy(store, rule_id, outcome) ==
  IF outcome = "ok" THEN store[rule_id] ELSE NoRule

\* refresh_policies that stores the given rules without clearing the
\* index members first
refresh_policies_no_clear(store, index, given, smembers, removal, insert) ==
  LET inserted(p) == store_policy(store, index, p, insert[p.rule_id])
      stored == { p.rule_id : p \in { q \in given : inserted(q).returned } }
  IN
  [store |-> [id \in DOMAIN store |->
                IF \E p \in given : p.rule_id = id
                THEN LET p == CHOOSE q \in given : q.rule_id = id
                     IN inserted(p).store[id]
                ELSE store[id]],
   index |-> index \cup stored,
   deleted |-> index,
   stored |-> stored,
   count |-> Cardinality(stored)]

\* RedisClient.refresh_policies on the cache (store, index) with the rules
\* `given`, no two of them with the same id: SMEMBERS, delete_policy on
\* every member, store_policy on every given rule, counting those that
\* return True. delete_policy and store_policy take care of their own
\* failures; a raising SMEMBERS ends the call with nothing done.
\* `removal` and `insert` give the outcome of the call made for each id.
\* The calls work on different keys, so the order they are made in does
\* not show in the result.
refresh_policies(store, index, given, smembers, removal, insert) ==
  LET removed(id) == delete_policy(store, index, id, removal[id])
      store1 == [id \in DOMAIN store |->
                   IF id \in index THEN removed(id).store[id] ELSE store[id]]
      index1 == { id \in index : id \in removed(id).index }
      inserted(p) == store_policy(store1, index1, p, insert[p.rule_id])
      stored == { p.rule_id : p \in { q \in given : inserted(q).returned } }
  IN
  IF smembers = "raises"
  THEN [store |-> store, index |-> index, deleted |-> {}, stored |-> {},
        count |-> 0]
  ELSE
    [store |-> [id \in DOMAIN store |->
                  IF \E p \in given : p.rule_id = id
                  THEN LET p == CHOOSE q \in given : q.rule_id = id
                       IN inserted(p).store[id]
                  ELSE store1[id]],
     index |-> index1 \cup stored,
     deleted |-> { id \in index : removed(id).returned },
     stored |-> stored,
     count |-> Cardinality(stored)]

\* a call of store_policy, delete_policy, get_policy or refresh_policies
\* and what it returned: `returned` for store and delete, `found` for get,
\* `count` for refresh, whose `given` rules had `stored` reported stored
\* after the members `deleted` had been reported deleted
CacheCall(op, rule_id, raised, returned, found, given, deleted, stored, count) ==
  [op |-> op, rule_id |-> rule_id, raised |-> raised, returned |-> returned,
   found |-> found, given |-> given, deleted |-> deleted, stored |-> stored,
   count |-> count]

\* no such call has just ended
NoCacheCall == CacheCall("", "", FALSE, FALSE, NoRule, {}, {}, {}, 0)

\* ------------------------------------------------- cache calls, by command
\* processes that call store_policy, delete_policy and refresh_policies
Writers == {"w1", "w2"}

\* the rules these writers store and the lists they refresh the cache with
WriterRules ==
  { p \in RuleUniverse :
      p.rule_id \in {"x", "y"} /\ p.enabled /\ p.priority = 10 }
WriterSets ==
  { G \in RefreshSets : G \subseteq WriterRules /\ Cardinality(G) <= 1 }

\* a Redis command a call on the policy cache sends
Command(cmd, rule_id, policy) ==
  [cmd |-> cmd, rule_id |-> rule_id, policy |-> policy]

\* the commands of store_policy(policy), in the order they are awaited
store_policy_commands(policy) ==
  << Command("SETEX", policy.rule_id, policy),
     Command("SADD", policy.rule_id, NoRule) >>

\* the commands of delete_policy(rule_id)
delete_policy_commands(rule_id) ==
  << Command("DEL", rule_id, NoRule), Command("SREM", rule_id, NoRule) >>

\* the first command of refresh_policies
refresh_policies_commands == << Command("SMEMBERS", "", NoRule) >>

\* the commands of the calls made one after the other
RECURSIVE Sequel(_)
Sequel(calls) ==
  IF calls = <<>> THEN <<>> ELSE Head(calls) \o Sequel(Tail(calls))

\* refresh_policies after SMEMBERS has answered with `members`:
\* delete_policy for every member in the order of the reply, then
\* store_policy for every rule of the list it was given
refresh_policies_rest(members, given) ==
  Sequel([i \in 1..Len(members) |-> delete_policy_commands(members[i])])
    \o Sequel([i \in 1..Len(given) |-> store_policy_commands(given[i])])

\* a call on the policy cache under way: the commands still to be sent,
\* for refresh_policies the rules it was given and the rules that were
\* listed when it began
Write(op, todo, given, old) ==
  [op |-> op, todo |-> todo, given |-> given, old |-> old]

\* the writer is in no call
NoWrite == Write("idle", <<>>, {}, {})

\* get_active_policies that keeps the default rules next to the cached ones
get_active_policies_with_defaults(cached) == DefaultPolicies \o cached

\* get_active_policies without the default rules to fall back on
get_active_policies_no_fallback(cached) == cached

\* PolicyEngine.get_active_policies, given what get_all_policies returned
get_active_policies(cached) ==
  IF cached # <<>> THEN cached ELSE DefaultPolicies

\* --------------------------------------------------------- circuit breaker
NoApprovalId == 0

\* ApprovalService.request_approval: the ApprovalRequest it builds; the
\* requests modelled are all sent by agent_a
ApprovalRequest(approval_id, request, evaluation) ==
  [approval_id |-> approval_id,
   request_id |-> request.request_id,
   agent_id |-> "agent_a",
   action_type |-> request.action_type,
   target_resource |-> request.target_resource,
   risk_score |-> evaluation.risk_score,
   risk_level |-> evaluation.risk_level,
   matched_rules |-> evaluation.matched_rules,
   sanitized_parameters |-> evaluation.sanitized_request.parameters,
   context |-> request.context]

\* the GatewayResponse process starts from
BaseResponse(request, evaluation) ==
  [request_id |-> request.request_id,
   status |-> "success",
   decision |-> evaluation.decision,
   risk_level |-> evaluation.risk_level,
   approval_required |-> FALSE,
   approval_id |-> NoApprovalId,
   forwarded |-> FALSE]

\* process whose deny branch does not look at the mode
process_deny_always_blocks(request, evaluation, gateway_mode, approval_id) ==
  LET base == BaseResponse(request, evaluation) IN
  CASE evaluation.decision = "allow" ->
         [base EXCEPT !.forwarded = TRUE]
    [] evaluation.decision = "shadow_logged" ->
         [base EXCEPT !.forwarded = TRUE]
    [] evaluation.decision = "pending_approval" ->
         IF gateway_mode = "SHADOW"
         THEN [base EXCEPT !.decision = "shadow_logged", !.forwarded = TRUE]
         ELSE [base EXCEPT !.status = "pending",
                           !.approval_required = TRUE,
                           !.approval_id = approval_id]
    [] evaluation.decision = "deny" ->
         [base EXCEPT !.status = "denied"]

\* process that blocks a shadow_logged evaluation under ENFORCE
process_blocks_shadow_logged(request, evaluation, gateway_mode, approval_id) ==
  LET base == BaseResponse(request, evaluation) IN
  CASE evaluation.decision = "allow" ->
         [base EXCEPT !.forwarded = TRUE]
    [] evaluation.decision = "shadow_logged" ->
         IF gateway_mode = "SHADOW"
         THEN [base EXCEPT !.forwarded = TRUE]
         ELSE [base EXCEPT !.decision = "deny", !.status = "denied"]
    [] evaluation.decision = "pending_approval" ->
         IF gateway_mode = "SHADOW"
         THEN [base EXCEPT !.decision = "shadow_logged", !.forwarded = TRUE]
         ELSE [base EXCEPT !.status = "pending",
                           !.approval_required = TRUE,
                           !.approval_id = approval_id]
    [] evaluation.decision = "deny" ->
         IF gateway_mode = "SHADOW"
         THEN [base EXCEPT !.decision = "shadow_logged", !.forwarded = TRUE]
         ELSE [base EXCEPT !.status = "denied"]

\* process whose coercion to shadow_logged starts from a fresh response
process_drops_level(request, evaluation, gateway_mode, approval_id) ==
  LET base == BaseResponse(request, evaluation)
      fresh == [base EXCEPT !.risk_level = "low"]
  IN
  CASE evaluation.decision = "allow" ->
         [base EXCEPT !.forwarded = TRUE]
    [] evaluation.decision = "shadow_logged" ->
         [base EXCEPT !.forwarded = TRUE]
    [] evaluation.decision = "pending_approval" ->
         IF gateway_mode = "SHADOW"
         THEN [fresh EXCEPT !.decision = "shadow_logged", !.forwarded = TRUE]
         ELSE [base EXCEPT !.status = "pending",
                           !.approval_required = TRUE,
                           !.approval_id = approval_id]
    [] evaluation.decision = "deny" ->
         IF gateway_mode = "SHADOW"
         THEN [fresh EXCEPT !.decision = "shadow_logged", !.forwarded = TRUE]
         ELSE [base EXCEPT !.status = "denied"]

\* process that refuses a shadow_logged evaluation under ENFORCE without
\* rewriting its decision
process_refuses_shadow(request, evaluation, gateway_mode, approval_id) ==
  LET base == BaseResponse(request, evaluation) IN
  CASE evaluation.decision = "allow" ->
         [base EXCEPT !.forwarded = TRUE]
    [] evaluation.decision = "shadow_logged" ->
         IF gateway_mode = "SHADOW"
         THEN [base EXCEPT !.forwarded = TRUE]
         ELSE [base EXCEPT !.status = "denied"]
    [] evaluation.decision = "pending_approval" ->
         IF gateway_mode = "SHADOW"
         THEN [base EXCEPT !.decision = "shadow_logged", !.forwarded = TRUE]
         ELSE [base EXCEPT !.status = "pending",
                           !.approval_required = TRUE,
                           !.approval_id = approval_id]
    [] evaluation.decision = "deny" ->
         IF gateway_mode = "SHADOW"
         THEN [base EXCEPT !.decision = "shadow_logged", !.forwarded = TRUE]
         ELSE [base EXCEPT !.status = "denied"]

\* CircuitBreaker.process: the GatewayResponse for an evaluation under the
\* mode read from settings; approval_id is the id request_approval returned
process(request, evaluation, gateway_mode, approval_id) ==
  LET base == BaseResponse(request, evaluation) IN
  CASE evaluation.decision = "allow" ->
         [base EXCEPT !.forwarded = TRUE]
    [] evaluation.decision = "shadow_logged" ->
         [base EXCEPT !.forwarded = TRUE]
    [] evaluation.decision = "pending_approval" ->
         IF gateway_mode = "SHADOW"
         THEN [base EXCEPT !.decision = "shadow_logged", !.forwarded = TRUE]
         ELSE [base EXCEPT !.status = "pending",
                           !.approval_required = TRUE,
                           !.approval_id = approval_id]
    [] evaluation.decision = "deny" ->
         IF gateway_mode = "SHADOW"
         THEN [base EXCEPT !.decision = "shadow_logged", !.forwarded = TRUE]
         ELSE [base EXCEPT !.status = "denied"]

NoEvaluation ==
  [request_id |-> 0, decision |-> "allow", risk_score |-> 0,
   risk_level |-> "low", matched_rules |-> <<>>, denial_reasons |-> <<>>,
   sanitized_request |->
     [parameters |-> NoRequest.parameters, context |-> NoRequest.context,
      action_type |-> "", target_resource |-> <<>>]]

NoResponse ==
  [request_id |-> 0, status |-> "", decision |-> "allow",
   risk_level |-> "low", approval_required |-> FALSE,
   approval_id |-> NoApprovalId, forwarded |-> FALSE]

\* ------------------------------------------------------------ rate limiter
Agents == {"agent_a", "agent_b"}
\* request handlers that may be inside check_rate_limit at the same time
Handlers == {"h1", "h2"}

\* the agent whose answers are tallied for the window properties (the
\* limiter treats every agent alike)
Observed == {"agent_a"}

\* reply of TTL for a key that exists and has no expiry
NoExpiry == -1

\* check_rate_limit that admits one request more than the quota
check_rate_limit_lenient(current_count) ==
  [is_allowed |-> current_count <= rate_limit_requests + 1,
   remaining |-> Max2(0, rate_limit_requests - current_count)]

\* check_rate_limit without the floor of remaining at 0
check_rate_limit_raw_remaining(current_count) ==
  [is_allowed |-> current_count <= rate_limit_requests,
   remaining |-> rate_limit_requests - current_count]

\* check_rate_limit, lines 194-197: the pair returned for the counter value
\* INCR replied
check_rate_limit(current_count) ==
  [is_allowed |-> current_count <= rate_limit_requests,
   remaining |-> Max2(0, rate_limit_requests - current_count)]

\* an except branch that rejects the request
fail_closed == [is_allowed |-> FALSE, remaining |-> 0]

\* check_rate_limit, lines 199-202: the pair returned when a command raised
fail_open == [is_allowed |-> TRUE, remaining |-> rate_limit_requests]

\* a RateLimitMiddleware that hands every request on
dispatch_always_next(is_allowed) == "call_next"

\* RateLimitMiddleware.dispatch on the pair: 429 or the next handler
dispatch(is_allowed) == IF ~is_allowed THEN "429" ELSE "call_next"

\* a handler that is not inside check_rate_limit
NoCheck == [pc |-> "idle", agent_id |-> "", current_count |-> 0]

\* what a call of check_rate_limit returned and what the middleware did
\* with it
CheckOutcome(agent_id, current_count, raised, result) ==
  [agent_id |-> agent_id, current_count |-> current_count,
   raised |-> raised, is_allowed |-> result.is_allowed,
   remaining |-> result.remaining, next |-> dispatch(result.is_allowed)]
NoOutcome == CheckOutcome("", 0, FALSE, fail_open)

\* ------------------------------------------------------ approval decisions
\* callers that may be inside process_approval_decision at the same time
Callers == {"c1", "c2"}
\* approval ids a caller may submit: the ids request_approval can hand out
\* and one more, which it never does
ApprovalIds == 1..(MaxApprovals + 1)

\* ApprovalResponse built by process_approval_decision
ApprovalResponse(approval_id, approved) ==
  [approval_id |-> approval_id,
   status |-> IF approved THEN "approved" ELSE "denied"]
\* process_approval_decision returning None
NoApprovalResponse(approval_id) ==
  [approval_id |-> approval_id, status |-> "absent"]

\* RedisClient.get_pending_approval: the records under the key of the id
\* (none when the key does not exist), nothing when GET raises
get_pending_approval(store, approval_id, readOk) ==
  IF readOk
  THEN { rec \in store : rec.record.approval_id = approval_id }
  ELSE {}

\* RedisClient.delete_pending_approval: DEL of the key; a raising DEL is
\* swallowed and leaves the key
delete_pending_approval(store, approval_id, deleteOk) ==
  IF deleteOk
  THEN { rec \in store : rec.record.approval_id # approval_id }
  ELSE store

\* a caller that is not inside process_approval_decision
NoCall ==
  [pc |-> "idle", late |-> FALSE, response |-> NoApprovalResponse(NoApprovalId)]
\* no call of process_approval_decision ended in the last step
NoDecision ==
  [late |-> FALSE, response |-> NoApprovalResponse(NoApprovalId)]

\* ------------------------------------------------------------ PII scanner
\* OperatorConfig("mask", {"chars_to_mask": 8, "masking_char": "*"})
chars_to_mask == 8

Letters ==
  {"a", "b", "c", "d", "e", "f", "g", "h", "i", "j", "k", "l", "m", "n", "o",
   "p", "q", "r", "s", "t", "u", "v", "w", "x", "y", "z",
   "A", "B", "C", "D", "E", "F", "G", "H", "I", "J", "K", "L", "M", "N", "O",
   "P", "Q", "R", "S", "T", "U", "V", "W", "X", "Y", "Z"}
Digits == {"0", "1", "2", "3", "4", "5", "6", "7", "8", "9"}

\* \w, and \b before position i of s (i = Len(s) + 1 is the end)
IsWordChar(c) == c \in Letters \cup Digits \cup {"_"}
Boundary(s, i) ==
  (i > 1 /\ IsWordChar(s[i - 1])) # (i <= Len(s) /\ IsWordChar(s[i]))

\* the character classes of the EMAIL_ADDRESS pattern: [A-Za-z0-9._%+-],
\* [A-Za-z0-9.-] and [A-Z|a-z]
IsLocalChar(c) == c \in Letters \cup Digits \cup {".", "_", "%", "+", "-"}
IsDomainChar(c) == c \in Letters \cup Digits \cup {".", "-"}
IsTldChar(c) == c \in Letters \cup {"|"}

Largest(S) == CHOOSE n \in S : \A m \in S : m <= n
Smallest(S) == CHOOSE n \in S : \A m \in S : n <= m

\* \b[A-Za-z0-9._%+-]+@[A-Za-z0-9.-]+\.[A-Z|a-z]{2,}\b tried at position i:
\* the position where the match ends, 0 when there is none. The local part
\* runs to the first "@"; the domain part and then the last part are taken
\* as long as the rest of the pattern allows (greedy, with backtracking).
EmailEnd(s, i) ==
  LET ats == { k \in (i + 1)..Len(s) :
                 s[k] = "@" /\ \A m \in i..(k - 1) : IsLocalChar(s[m]) }
      ends(k) ==
        { de \in ((k + 1)..Len(s)) \X ((k + 1)..Len(s)) :
            /\ de[1] + 3 <= de[2]
            /\ \A m \in (k + 1)..de[1] : IsDomainChar(s[m])
            /\ s[de[1] + 1] = "."
            /\ \A m \in (de[1] + 2)..de[2] : IsTldChar(s[m])
            /\ Boundary(s, de[2] + 1) }
  IN
  IF ~Boundary(s, i) \/ ats = {} THEN 0
  ELSE
    LET k == Smallest(ats)
        found == ends(k)
    IN
    IF found = {} THEN 0
    ELSE LET d == Largest({ de[1] : de \in found })
         IN Largest({ de[2] : de \in { x \in found : x[1] = d } })

\* \b\d{3}-\d{2}-\d{4}\b tried at position i
SsnEnd(s, i) ==
  IF /\ i + 10 <= Len(s)
     /\ Boundary(s, i)
     /\ \A m \in {0, 1, 2, 4, 5, 7, 8, 9, 10} : s[i + m] \in Digits
     /\ s[i + 3] = "-"
     /\ s[i + 6] = "-"
     /\ Boundary(s, i + 11)
  THEN i + 10
  ELSE 0

\* the patterns of _fallback_sanitize in the order of the dict; the
\* PHONE_NUMBER, CREDIT_CARD and IP_ADDRESS patterns match nothing in the
\* texts scanned here nor in what they are rewritten to
FallbackPatterns == <<"EMAIL_ADDRESS", "US_SSN">>

MatchEnd(pattern, s, i) ==
  IF pattern = "EMAIL_ADDRESS" THEN EmailEnd(s, i) ELSE SsnEnd(s, i)

\* the non-overlapping matches of a pattern in s from position pos on,
\* leftmost first, as re.sub and the recognizers find them
RECURSIVE FindAll(_, _, _)
FindAll(pattern, s, pos) ==
  LET starts == { i \in pos..Len(s) : MatchEnd(pattern, s, i) > 0 } IN
  IF starts = {} THEN <<>>
  ELSE
    LET i == Smallest(starts)
        e == MatchEnd(pattern, s, i)
    IN <<[start |-> i, end |-> e, entity_type |-> pattern]>>
         \o FindAll(pattern, s, e + 1)

REDACTED == <<"[", "R", "E", "D", "A", "C", "T", "E", "D", "]">>

\* the mask operator of the anonymizer on the text of one entity: its
\* first chars_to_mask characters become "*", the others stay
mask(entity) ==
  [i \in 1..Len(entity) |-> IF i <= chars_to_mask THEN "*" ELSE entity[i]]

Replacement(how, entity) == IF how = "redact" THEN REDACTED ELSE mask(entity)

\* s from position pos on with the spans, given from left to right,
\* replaced
RECURSIVE Rewrite(_, _, _, _)
Rewrite(how, s, spans, pos) ==
  IF spans = <<>> THEN SubSeq(s, pos, Len(s))
  ELSE
    LET span == Head(spans) IN
    SubSeq(s, pos, span.start - 1)
      \o Replacement(how, SubSeq(s, span.start, span.end))
      \o Rewrite(how, s, Tail(spans), span.end + 1)

ScanResult(text, detected) == [masked |-> text, detected |-> detected]

\* PIISanitizer._fallback_sanitize from the i-th pattern on: a pattern that
\* is found is noted and its matches become [REDACTED]
RECURSIVE FallbackFrom(_, _, _)
FallbackFrom(i, sanitized, detected) ==
  IF i > Len(FallbackPatterns) THEN ScanResult(sanitized, detected)
  ELSE
    LET pattern == FallbackPatterns[i]
        spans == FindAll(pattern, sanitized, 1)
    IN
    IF spans = <<>> THEN FallbackFrom(i + 1, sanitized, detected)
    ELSE FallbackFrom(i + 1, Rewrite("redact", sanitized, spans, 1),
                      detected \cup {pattern})

_fallback_sanitize(text) == FallbackFrom(1, text, {})

\* PIISanitizer.analyze: the results of the recognizers on the text, from
\* left to right. The recognizers of EMAIL_ADDRESS and US_SSN are taken to
\* accept what the patterns above accept; the texts scanned here hold no
\* two entities that overlap.
analyze(text) ==
  LET emails == FindAll("EMAIL_ADDRESS", text, 1)
      ssns == FindAll("US_SSN", text, 1)
      all == { emails[i] : i \in 1..Len(emails) }
               \cup { ssns[i] : i \in 1..Len(ssns) }
      RECURSIVE Sorted(_)
      Sorted(S) ==
        IF S = {} THEN <<>>
        ELSE LET first == CHOOSE x \in S : \A y \in S : x.start <= y.start
             IN <<first>> \o Sorted(S \ {first})
  IN Sorted(all)

\* the ways the scanner is built: "presidio" with both engines loaded and
\* the mask operator applied, "anonymizer_raises" with both engines loaded
\* and anonymize raising, "fallback" with no engine loaded
Engines == {"presidio", "anonymizer_raises", "fallback"}

\* PIISanitizer.sanitize_text
SanitizeText(engine, text) ==
  IF text = <<>> THEN ScanResult(text, {})
  ELSE IF engine = "fallback" THEN _fallback_sanitize(text)
  ELSE
    LET results == analyze(text) IN
    IF results = <<>> THEN ScanResult(text, {})
    ELSE IF engine = "anonymizer_raises" THEN _fallback_sanitize(text)
    ELSE ScanResult(Rewrite("mask", text, results, 1),
                    { results[i].entity_type : i \in 1..Len(results) })

\* the strings handed to the scanner
Texts ==
  {
    <<"a", "@", "b", ".", "c", "o", "m">>,
    <<"a", "@", "b", ".", "c", "o", "m", " ", "o", "k">>,
    <<"j", "o", "h", "n", ".", "d", "o", "e", "@", "b", ".", "c", "o",
      "m">>,
    <<"j", "o", "h", "n", ".", "d", "o", "e", "@", "b", ".", "c", "o", "m",
      " ", "o", "k">>,
    <<"j", "o", "h", "n", ".", "s", "m", "i", "t", "h", "@", "b", ".", "c",
      "o", "m">>,
    <<"j", "o", "h", "n", ".", "s", "m", "i", "t", "h", "@", "b", ".", "c",
      "o", "m", " ", "o", "k">>,
    <<"t", "o", " ", "a", "@", "b", ".", "c", "o", "m">>,
    <<"t", "o", " ", "a", "@", "b", ".", "c", "o", "m", " ", "o", "k">>,
    <<"t", "o", " ", "j", "o", "h", "n", ".", "d", "o", "e", "@", "b", ".",
      "c", "o", "m">>,
    <<"t", "o", " ", "j", "o", "h", "n", ".", "d", "o", "e", "@", "b", ".",
      "c", "o", "m", " ", "o", "k">>,
    <<"t", "o", " ", "j", "o", "h", "n", ".", "s", "m", "i", "t", "h", "@",
      "b", ".", "c", "o", "m">>,
    <<"t", "o", " ", "j", "o", "h", "n", ".", "s", "m", "i", "t", "h", "@",
      "b", ".", "c", "o", "m", " ", "o", "k">>,
    <<"1", "2", "3", "-", "4", "5", "-", "6", "7", "8", "9">>,
    <<"s", "s", "n", " ", "1", "2", "3", "-", "4", "5", "-", "6", "7", "8",
      "9", " ", "o", "k">>,
    <<"h", "e", "l", "l", "o">>,
    <<>>,
    <<"a", "@", "b">>,
    <<"1", "2", "3", "4", "-", "5", "6", "-", "7", "8", "9", "0">>,
    <<"a", "@", "b", ".", "c", "o", "m", " ", "1", "2", "3", "-", "4", "5",
      "-", "6", "7", "8", "9">>
  }

\* nothing has been scanned
NoScan ==
  [stage |-> "idle", engine |-> "", text |-> <<>>,
   first |-> ScanResult(<<>>, {}), second |-> ScanResult(<<>>, {})]

\* ------------------------------------------------------------------- state
\* the HTTP request to the evaluate endpoint between the middlewares:
\* "authenticated" once AuthenticationMiddleware has set its agent_id,
\* "admitted" once RateLimitMiddleware has called the next handler,
\* "answered" when a middleware returned `status` itself
HttpRequest(stage, agent_id, status) ==
  [stage |-> stage, agent_id |-> agent_id, status |-> status]
NoHttp == HttpRequest("none", "", 0)

\* the fields of an audit row that the requests and approvals determine
AuditLogEntry(request_id, agent_id, action_type, risk_score, outcome) ==
  [request_id |-> request_id, agent_id |-> agent_id,
   action_type |-> action_type, risk_score |-> risk_score,
   outcome |-> outcome]
NoAudit == AuditLogEntry(0, "", "", 0, "")

\* the fields of a row of approval_audits that log_approval is handed by
\* submit_approval_decision
ApprovalAudit(approval_id, request_id, agent_id, action_type, risk_score, status) ==
  [approval_id |-> approval_id, request_id |-> request_id,
   agent_id |-> agent_id, action_type |-> action_type,
   risk_score |-> risk_score, status |-> status]
NoApprovalAudit == ApprovalAudit(0, 0, "", "", 0, "")

VARIABLES
  mode,            \* settings.gateway_mode, shared by engine and breaker
  policyStore,     \* sentinel:policy:<rule_id> -> stored rule, or NoRule
  policyIndex,     \* members of the set sentinel:policy:index
  approvalStore,   \* records under sentinel:approval:<id>, with their TTL
  webhookLog,      \* POSTs made to the approval webhook, with the outcome
  nextApprovalId,  \* number of the next uuid4 request_approval draws
  pc,              \* where the request in flight stands
  request,         \* the AgentRequest in flight
  policies,        \* the list get_active_policies returned to evaluate
  evaluated,       \* rule ids handed to _evaluate_conditions, in order
  evaluation,      \* the PolicyEvaluationResult
  evalMode,        \* gateway_mode as _determine_decision read it
  response,        \* the GatewayResponse
  procMode,        \* gateway_mode as process read it
  rateCount,       \* sentinel:ratelimit:<agent_id> -> counter, 0 = no key
  rateTtl,         \* ticks the key has left to live, or NoExpiry
  check,           \* handler -> its place inside check_rate_limit
  lastCheck,       \* outcome of the call of check_rate_limit the last step
                   \* ended, NoOutcome when it ended none
  recentAllowed,   \* agent -> age in ticks -> is_allowed=true answers given
  grantedInWindow, \* agent -> increments of the live key that were <= quota
  quiet,           \* agent -> seconds since it last sent a request, up to W
  decision,        \* caller -> its place inside process_approval_decision
  lastDecision,    \* what the call of process_approval_decision that the
                   \* last step ended returned, NoDecision when none ended
  answered,        \* the ApprovalResponses returned so far
  scan,            \* a string leaf, what sanitize_text made of it and what a
                   \* second run made of that
  listing,         \* what the call of get_all_policies that the last step
                   \* ended returned, NoListing when it ended none
  cacheCall,       \* the call of store_policy, delete_policy, get_policy or
                   \* refresh_policies that the last step ended and what it
                   \* returned, NoCacheCall when it ended none
  http,            \* the HTTP request to the evaluate endpoint on its way
                   \* through the middleware stack
  lastAudit,       \* the AuditLogEntry the last step wrote, NoAudit when it
                   \* wrote none
  approvalAudit,   \* the row of approval_audits written last,
                   \* NoApprovalAudit before the first
  writer,          \* writer -> the call it is in on the policy cache and
                   \* the commands that call has yet to send
  cacheRaises      \* commands of those calls that have raised so far

cacheVars == <<policyStore, policyIndex>>
approvalVars == <<approvalStore, webhookLog, nextApprovalId>>
evalVars == <<request, policies, evaluated, evaluation, evalMode>>
procVars == <<response, procMode>>
limiterVars ==
  <<rateCount, rateTtl, check, lastCheck, recentAllowed, grantedInWindow,
    quiet>>
decisionVars == <<decision, lastDecision, answered>>
\* the state the request pipeline and the policy cache leave alone
writerVars == <<writer, cacheRaises>>
edgeVars == <<http, lastAudit, approvalAudit, writerVars>>
sideVars == <<limiterVars, decisionVars, scan, listing, cacheCall, edgeVars>>
vars ==
  <<mode, cacheVars, approvalVars, pc, evalVars, procVars, limiterVars,
    decisionVars, scan, listing, cacheCall, edgeVars>>

\* The gateway has started in ENFORCE (the default) or SHADOW mode with
\* Redis unreachable during startup: no default policy was written to the
\* cache, the engine holds its default policies in memory.
Init ==
  /\ mode \in GatewayMode
  /\ policyStore = [id \in RuleIds |-> NoRule]
  /\ policyIndex = {}
  /\ approvalStore = {}
  /\ webhookLog = {}
  /\ nextApprovalId = 1
  /\ pc = "idle"
  /\ request = NoRequest
  /\ policies = <<>>
  /\ evaluated = <<>>
  /\ evaluation = NoEvaluation
  /\ evalMode = "ENFORCE"
  /\ response = NoResponse
  /\ procMode = "ENFORCE"
  /\ rateCount = [a \in Agents |-> 0]
  /\ rateTtl = [a \in Agents |-> NoExpiry]
  /\ check = [h \in Handlers |-> NoCheck]
  /\ lastCheck = NoOutcome
  /\ recentAllowed =
       [a \in Observed |-> [age \in 0..(rate_limit_window_seconds - 1) |-> 0]]
  /\ grantedInWindow = [a \in Observed |-> 0]
  /\ quiet = [a \in Observed |-> 0]
  /\ decision = [c \in Callers |-> NoCall]
  /\ lastDecision = NoDecision
  /\ answered = {}
  /\ scan = NoScan
  /\ listing = NoListing
  /\ cacheCall = NoCacheCall
  /\ http = NoHttp
  /\ lastAudit = NoAudit
  /\ approvalAudit = NoApprovalAudit
  /\ writer = [w \in Writers |-> NoWrite]
  /\ cacheRaises = 0

\* ----------------------------------------------------------------- actions
\* CircuitBreaker.set_mode
SetMode ==
  \E m \in GatewayMode :
    /\ mode' = m
    /\ UNCHANGED <<sideVars, cacheVars, approvalVars, pc, evalVars, procVars>>

\* A call of store_policy; either command may raise. The call and its
\* result are put down in cacheCall when `noted`.
\* Cache writes are taken between requests: evaluate reads the cache in one
\* step and nothing after it reads the cache again, so a write that lands
\* while a result is held changes no outcome of that request.
StoreCall(noted) ==
  \E policy \in RuleUniverse,
     outcome \in {"ok", "setex_raises", "sadd_raises"} :
    LET after == store_policy(policyStore, policyIndex, policy, outcome) IN
    /\ pc = "idle"
    /\ policyStore' = after.store
    /\ policyIndex' = after.index
    /\ listing' = NoListing
    /\ cacheCall' = IF noted
                    THEN CacheCall("store", policy.rule_id, outcome # "ok",
                                   after.returned, NoRule, {}, {}, {}, 0)
                    ELSE NoCacheCall
    /\ UNCHANGED <<limiterVars, decisionVars, scan, edgeVars, mode,
                   approvalVars, pc,
                   evalVars, procVars>>

\* A call of delete_policy; either command may raise
DeleteCall(noted) ==
  \E rule_id \in RuleIds,
     outcome \in {"ok", "delete_raises", "srem_raises"} :
    LET after == delete_policy(policyStore, policyIndex, rule_id, outcome) IN
    /\ pc = "idle"
    /\ policyStore' = after.store
    /\ policyIndex' = after.index
    /\ listing' = NoListing
    /\ cacheCall' = IF noted
                    THEN CacheCall("delete", rule_id, outcome # "ok",
                                   after.returned, NoRule, {}, {}, {}, 0)
                    ELSE NoCacheCall
    /\ UNCHANGED <<limiterVars, decisionVars, scan, edgeVars, mode,
                   approvalVars, pc,
                   evalVars, procVars>>

\* an operator stores or deletes a rule while the engine serves requests
StorePolicy == StoreCall(FALSE)
DeletePolicy == DeleteCall(FALSE)

\* The TTL set by SETEX in store_policy runs out: the key goes, the index
\* set, which has no TTL, keeps the rule id
ExpirePolicy ==
  \E rule_id \in RuleIds :
    /\ pc = "idle"
    /\ policyStore[rule_id] # NoRule
    /\ policyStore' = [policyStore EXCEPT ![rule_id] = NoRule]
    /\ listing' = NoListing
    /\ cacheCall' = NoCacheCall
    /\ UNCHANGED <<limiterVars, decisionVars, scan, edgeVars, mode,
                   policyIndex,
                   approvalVars, pc, evalVars, procVars>>

\* RedisClient.get_all_policies: SMEMBERS, then MGET when the index has
\* members; a command that raises ends the call in the except branch, which
\* returns the list as it stands there, empty
GetAllPolicies ==
  \E order \in Orders(policyIndex),
     outcome \in {"ok", "smembers_raises", "mget_raises"} :
    /\ pc = "idle"
    /\ outcome = "mget_raises" => policyIndex # {}
    /\ listing' = IF outcome = "ok"
                  THEN Listing(FALSE, get_all_policies(policyStore, order))
                  ELSE Listing(TRUE, <<>>)
    /\ cacheCall' = NoCacheCall
    /\ UNCHANGED <<limiterVars, decisionVars, scan, edgeVars, mode,
                   cacheVars,
                   approvalVars, pc, evalVars, procVars>>

\* A call of refresh_policies with no other writer at work. `faults` names
\* the commands that raise, at most MaxRaises of them: SMEMBERS, the DEL
\* or SREM of the delete_policy made for an index member, the SETEX or
\* SADD of the store_policy made for a given rule.
RefreshPolicies ==
  \E given \in RefreshSets :
    LET ids == { p.rule_id : p \in given }
        points == {<<"", "none">>, <<"", "smembers_raises">>}
                    \cup (policyIndex \X {"delete_raises", "srem_raises"})
                    \cup (ids \X {"setex_raises", "sadd_raises"})
    IN
    \E faults \in [1..MaxRaises -> points] :
      LET hit == { faults[i] : i \in 1..MaxRaises }
          smembers == IF <<"", "smembers_raises">> \in hit
                      THEN "raises" ELSE "ok"
          removal == [id \in policyIndex |->
                        IF <<id, "delete_raises">> \in hit
                        THEN "delete_raises"
                        ELSE IF <<id, "srem_raises">> \in hit
                        THEN "srem_raises" ELSE "ok"]
          insert == [id \in ids |->
                       IF <<id, "setex_raises">> \in hit THEN "setex_raises"
                       ELSE IF <<id, "sadd_raises">> \in hit
                       THEN "sadd_raises" ELSE "ok"]
          after == refresh_policies(policyStore, policyIndex, given, smembers,
                                    removal, insert)
      IN
      /\ pc = "idle"
      /\ policyStore' = after.store
      /\ policyIndex' = after.index
      /\ listing' = NoListing
      /\ cacheCall' = CacheCall("refresh", "", hit # {<<"", "none">>}, FALSE,
                                NoRule, given, after.deleted, after.stored,
                                after.count)
      /\ UNCHANGED <<limiterVars, decisionVars, scan, edgeVars, mode,
                     approvalVars, pc,
                     evalVars, procVars>>

\* A call of get_policy; GET may raise
GetPolicy ==
  \E rule_id \in RuleIds, outcome \in {"ok", "get_raises"} :
    /\ pc = "idle"
    /\ listing' = NoListing
    /\ cacheCall' = CacheCall("get", rule_id, outcome # "ok", FALSE,
                              get_policy(policyStore, rule_id, outcome),
                              {}, {}, {}, 0)
    /\ UNCHANGED <<limiterVars, decisionVars, scan, edgeVars, mode,
                   cacheVars,
                   approvalVars, pc, evalVars, procVars>>

\* A writer calls store_policy
BeginStore ==
  \E w \in Writers, policy \in WriterRules :
    /\ pc = "idle"
    /\ writer[w] = NoWrite
    /\ writer' = [writer EXCEPT ![w] =
         Write("store", store_policy_commands(policy), {}, {})]
    /\ listing' = NoListing
    /\ cacheCall' = NoCacheCall
    /\ UNCHANGED <<cacheRaises, http, lastAudit, approvalAudit, limiterVars,
                   decisionVars, scan, mode, cacheVars, approvalVars, pc,
                   evalVars, procVars>>

\* A writer calls delete_policy
BeginDelete ==
  \E w \in Writers, rule_id \in { p.rule_id : p \in WriterRules } :
    /\ pc = "idle"
    /\ writer[w] = NoWrite
    /\ writer' = [writer EXCEPT ![w] =
         Write("delete", delete_policy_commands(rule_id), {}, {})]
    /\ listing' = NoListing
    /\ cacheCall' = NoCacheCall
    /\ UNCHANGED <<cacheRaises, http, lastAudit, approvalAudit, limiterVars,
                   decisionVars, scan, mode, cacheVars, approvalVars, pc,
                   evalVars, procVars>>

\* A writer calls refresh_policies(new_rules); list_active would return
\* the rules `old` at this moment
BeginRefresh ==
  \E w \in Writers, given \in WriterSets :
    LET old == { policyStore[id] : id \in
                   { i \in policyIndex :
                       policyStore[i] # NoRule /\ policyStore[i].enabled } }
    IN
    /\ pc = "idle"
    /\ writer[w] = NoWrite
    /\ writer' = [writer EXCEPT ![w] =
         Write("refresh", refresh_policies_commands, given, old)]
    /\ listing' = NoListing
    /\ cacheCall' = NoCacheCall
    /\ UNCHANGED <<cacheRaises, http, lastAudit, approvalAudit, limiterVars,
                   decisionVars, scan, mode, cacheVars, approvalVars, pc,
                   evalVars, procVars>>

\* refresh_policies called while no other call on the cache is under way
BeginRefreshAlone ==
  /\ \A w \in Writers : writer[w] = NoWrite
  /\ BeginRefresh

\* A writer sends the next command of its call and Redis carries it out,
\* or the command raises. store_policy and delete_policy catch what their
\* commands raise and return False without sending what was left of the
\* call; a raising SMEMBERS ends refresh_policies. The call is over when
\* no command is left.
SendCommand ==
  \E w \in Writers, ok \in BOOLEAN :
    LET call == writer[w]
        c == Head(call.todo)
        rest == Tail(call.todo)
        first == c.cmd \in {"SETEX", "DEL"}
    IN
    /\ pc = "idle"
    /\ call.todo # <<>>
    /\ ~ok => cacheRaises < MaxRaises
    /\ cacheRaises' = IF ok THEN cacheRaises ELSE cacheRaises + 1
    /\ policyStore' =
         IF ok /\ c.cmd = "SETEX"
         THEN [policyStore EXCEPT ![c.rule_id] = c.policy]
         ELSE IF ok /\ c.cmd = "DEL"
         THEN [policyStore EXCEPT ![c.rule_id] = NoRule]
         ELSE policyStore
    /\ policyIndex' =
         IF ok /\ c.cmd = "SADD" THEN policyIndex \cup {c.rule_id}
         ELSE IF ok /\ c.cmd = "SREM" THEN policyIndex \ {c.rule_id}
         ELSE policyIndex
    /\ \E members \in Orders(policyIndex), given \in Orders(call.given) :
         LET todo == IF c.cmd = "SMEMBERS"
                     THEN IF ok THEN refresh_policies_rest(members, given)
                          ELSE <<>>
                     ELSE IF ~ok /\ first THEN Tail(rest)
                     ELSE rest
         IN writer' = [writer EXCEPT ![w] =
              IF todo = <<>> THEN NoWrite ELSE [call EXCEPT !.todo = todo]]
    /\ listing' = NoListing
    /\ cacheCall' = NoCacheCall
    /\ UNCHANGED <<http, lastAudit, approvalAudit, limiterVars, decisionVars,
                   scan, mode, approvalVars, pc, evalVars, procVars>>

\* PolicyEngine.evaluate for an arriving request: read the cache (a raising
\* read yields the empty list), fall back to the defaults when it is empty,
\* match, score and decide under the mode in force
EvaluateFrom(requests) ==
  \E req \in requests, order \in Orders(policyIndex), cacheOk \in BOOLEAN :
    LET cached == IF cacheOk THEN get_all_policies(policyStore, order)
                  ELSE <<>>
        active == get_active_policies(cached)
    IN
    /\ pc = "idle"
    /\ request' = req
    /\ policies' = active
    /\ evaluated' = Match(active, req).evaluated
    /\ evaluation' = evaluate(req, active, mode)
    /\ evalMode' = mode
    /\ pc' = "evaluated"
    /\ listing' = Listing(~cacheOk, cached)
    /\ cacheCall' = NoCacheCall
    /\ UNCHANGED <<limiterVars, decisionVars, scan, edgeVars, mode,
                   cacheVars,
                   approvalVars, procVars>>

\* evaluate on any modelled request
Evaluate == EvaluateFrom(Requests)

\* evaluate_request: the endpoint calls evaluate on the request it received
EvaluateRequest == EvaluateFrom(PipelineRequests)

\* evaluate hands its result back and the caller moves on
ReturnResult ==
  /\ pc = "evaluated"
  /\ pc' = "idle"
  /\ request' = NoRequest
  /\ policies' = <<>>
  /\ evaluated' = <<>>
  /\ evaluation' = NoEvaluation
  /\ evalMode' = "ENFORCE"
  /\ listing' = NoListing
  /\ UNCHANGED <<limiterVars, decisionVars, scan, cacheCall, edgeVars, mode,
                 cacheVars, approvalVars, procVars>>

\* CircuitBreaker.process on the evaluation of the request in flight. On
\* the ENFORCE + pending_approval branch request_approval builds the
\* ApprovalRequest, stores it with a 24 h TTL (a raising SETEX is swallowed
\* by store_pending_approval) and POSTs the webhook, whose outcome is
\* ignored. `stored` and `hook` are the outcomes of these two calls; the
\* other branches make neither call.
Process ==
  \E stored \in BOOLEAN,
     hook \in {"accepted", "other_status", "timeout", "request_error"} :
    LET asks == evaluation.decision = "pending_approval" /\ mode = "ENFORCE"
        approval == ApprovalRequest(nextApprovalId, request, evaluation)
    IN
    /\ pc = "evaluated"
    /\ asks => nextApprovalId <= MaxApprovals
    /\ ~asks => stored /\ hook = "accepted"
    /\ approvalStore' =
         IF asks /\ stored
         THEN approvalStore \cup {[record |-> approval, ttl |-> ApprovalTtl]}
         ELSE approvalStore
    /\ webhookLog' =
         IF asks
         THEN webhookLog \cup {[payload |-> approval, outcome |-> hook]}
         ELSE webhookLog
    /\ nextApprovalId' = IF asks THEN nextApprovalId + 1 ELSE nextApprovalId
    /\ response' = process(request, evaluation, mode, nextApprovalId)
    /\ procMode' = mode
    /\ pc' = "processed"
    /\ UNCHANGED <<sideVars, mode, cacheVars, evalVars>>

\* evaluate_request returns the response to the agent
Respond ==
  /\ pc = "processed"
  /\ pc' = "idle"
  /\ request' = NoRequest
  /\ policies' = <<>>
  /\ evaluated' = <<>>
  /\ evaluation' = NoEvaluation
  /\ evalMode' = "ENFORCE"
  /\ response' = NoResponse
  /\ procMode' = "ENFORCE"
  /\ listing' = NoListing
  /\ UNCHANGED <<limiterVars, decisionVars, scan, cacheCall, edgeVars, mode,
                 cacheVars, approvalVars>>

\* the other components' variables, left alone by the rate limiter
gatewayVars ==
  <<mode, cacheVars, approvalVars, pc, evalVars, procVars, decisionVars,
    scan, listing, cacheCall, edgeVars>>

\* recentAllowed once the agent has been given the answer `result`; the
\* tally stops one above the quota
Answered(agent_id, result) ==
  IF result.is_allowed /\ agent_id \in Observed
  THEN [recentAllowed EXCEPT ![agent_id][0] =
          IF @ > rate_limit_requests THEN @ ELSE @ + 1]
  ELSE recentAllowed

\* RedisClient.check_rate_limit up to its first reply: the pipeline runs
\* INCR and TTL on the agent's key in one transaction. When the key has an
\* expiry the call returns at once; when TTL replies -1 the handler goes on
\* to EXPIRE. A raising pipeline ends the call in the except branch, whether
\* the commands never ran ("raises") or ran and the reply was lost
\* ("reply_lost"). RateLimitMiddleware.dispatch acts on the pair returned.
CheckCall(timed) ==
  \E h \in Handlers, agent_id \in Agents,
     outcome \in {"ok", "raises", "reply_lost"} :
    LET current_count == rateCount[agent_id] + 1
        ttl == rateTtl[agent_id]
        applied == outcome # "raises"
        result == IF outcome = "ok" THEN check_rate_limit(current_count)
                  ELSE fail_open
        returns == outcome # "ok" \/ ttl # NoExpiry
    IN
    /\ check[h].pc = "idle"
    /\ rateCount[agent_id] < MaxCount
    /\ rateCount' = IF applied
                    THEN [rateCount EXCEPT ![agent_id] = current_count]
                    ELSE rateCount
    /\ grantedInWindow' =
         IF /\ applied
            /\ agent_id \in Observed
            /\ check_rate_limit(current_count).is_allowed
         THEN [grantedInWindow EXCEPT ![agent_id] = @ + 1]
         ELSE grantedInWindow
    /\ IF returns
       THEN /\ lastCheck' = CheckOutcome(agent_id,
                              IF applied THEN current_count ELSE 0,
                              outcome # "ok", result)
            /\ recentAllowed' = Answered(agent_id, result)
            /\ UNCHANGED check
       ELSE /\ check' = [check EXCEPT ![h] =
                           [pc |-> "incremented", agent_id |-> agent_id,
                            current_count |-> current_count]]
            /\ lastCheck' = NoOutcome
            /\ UNCHANGED recentAllowed
    /\ quiet' = IF timed /\ agent_id \in Observed
                THEN [quiet EXCEPT ![agent_id] = 0]
                ELSE quiet
    /\ UNCHANGED <<rateTtl, gatewayVars>>

\* a request of an agent reaches the limiter
CheckRateLimit == CheckCall(FALSE)

\* the same, with the time since the agent's last request kept
CheckTimed == CheckCall(TRUE)

\* check_rate_limit after TTL replied -1: EXPIRE key W, then the pair for
\* the count INCR replied. EXPIRE on a key that has gone meanwhile does
\* nothing; a raising EXPIRE ends the call in the except branch, with the
\* expiry set ("reply_lost") or not ("raises").
SetWindowExpiry ==
  \E h \in Handlers, outcome \in {"ok", "raises", "reply_lost"} :
    LET agent_id == check[h].agent_id
        applied == outcome # "raises" /\ rateCount[agent_id] > 0
        result == IF outcome = "ok"
                  THEN check_rate_limit(check[h].current_count)
                  ELSE fail_open
    IN
    /\ check[h].pc = "incremented"
    /\ rateTtl' = IF applied
                  THEN [rateTtl EXCEPT ![agent_id] = rate_limit_window_seconds]
                  ELSE rateTtl
    /\ check' = [check EXCEPT ![h] = NoCheck]
    /\ lastCheck' = CheckOutcome(agent_id, check[h].current_count,
                                 outcome # "ok", result)
    /\ recentAllowed' = Answered(agent_id, result)
    /\ UNCHANGED <<rateCount, grantedInWindow, quiet, gatewayVars>>

\* One second passes: every expiry set by EXPIRE comes a tick closer and a
\* key whose time is up is removed by Redis; the answers given age by one.
Pass(timed) ==
  /\ rateTtl' = [a \in Agents |->
                   IF rateTtl[a] > 1 THEN rateTtl[a] - 1 ELSE NoExpiry]
  /\ rateCount' = [a \in Agents |->
                     IF rateTtl[a] = 1 THEN 0 ELSE rateCount[a]]
  /\ grantedInWindow' = [a \in Observed |->
                           IF rateTtl[a] = 1 THEN 0 ELSE grantedInWindow[a]]
  /\ recentAllowed' =
       [a \in Observed |->
          [age \in 0..(rate_limit_window_seconds - 1) |->
             IF age = 0 THEN 0 ELSE recentAllowed[a][age - 1]]]
  /\ lastCheck' = NoOutcome
  /\ quiet' = IF timed
              THEN [a \in Observed |->
                      IF quiet[a] < rate_limit_window_seconds
                      THEN quiet[a] + 1 ELSE quiet[a]]
              ELSE quiet
  /\ UNCHANGED <<check, gatewayVars>>

\* a second passes
Tick == Pass(FALSE)

\* the same, with the time since each agent's last request kept
TickTimed == Pass(TRUE)

\* ------------------------------------------------------- middleware stack
\* AuthenticationMiddleware.dispatch on a request to the evaluate endpoint:
\* a key it knows sets agent_id_ctx and calls the next middleware, any other
\* Authorization header is answered with 401
Authenticate ==
  \E agent_id \in Agents \cup {""} :
    /\ http.stage = "none"
    /\ pc = "idle"
    /\ http' = IF agent_id = "" THEN HttpRequest("answered", "", 401)
               ELSE HttpRequest("authenticated", agent_id, 0)
    /\ lastAudit' = NoAudit
    /\ UNCHANGED <<approvalAudit, writerVars, mode, cacheVars, approvalVars,
                   pc, evalVars,
                   procVars, limiterVars, decisionVars, scan, listing,
                   cacheCall>>

\* RateLimitMiddleware.dispatch on the authenticated request: one call of
\* check_rate_limit for its agent (the pipeline of INCR and TTL, then EXPIRE
\* when TTL replied -1; either may raise with the commands applied or not,
\* which ends the call in its except branch), then 429 or the next handler
RateLimitDispatch ==
  \E outcome \in {"ok", "raises", "reply_lost"},
     expire \in {"ok", "raises", "reply_lost"} :
    LET agent_id == http.agent_id
        current_count == rateCount[agent_id] + 1
        applied == outcome # "raises"
        expires == outcome = "ok" /\ rateTtl[agent_id] = NoExpiry
        raised == outcome # "ok" \/ (expires /\ expire # "ok")
        result == IF raised THEN fail_open
                  ELSE check_rate_limit(current_count)
    IN
    /\ http.stage = "authenticated"
    /\ rateCount[agent_id] < MaxCount
    /\ ~expires => expire = "ok"
    /\ rateCount' = IF applied
                    THEN [rateCount EXCEPT ![agent_id] = current_count]
                    ELSE rateCount
    /\ rateTtl' = IF expires /\ expire # "raises"
                  THEN [rateTtl EXCEPT ![agent_id] = rate_limit_window_seconds]
                  ELSE rateTtl
    /\ grantedInWindow' =
         IF /\ applied
            /\ agent_id \in Observed
            /\ check_rate_limit(current_count).is_allowed
         THEN [grantedInWindow EXCEPT ![agent_id] = @ + 1]
         ELSE grantedInWindow
    /\ recentAllowed' = Answered(agent_id, result)
    /\ lastCheck' = CheckOutcome(agent_id,
                                 IF applied THEN current_count ELSE 0,
                                 raised, result)
    /\ http' = IF dispatch(result.is_allowed) = "429"
               THEN HttpRequest("answered", agent_id, 429)
               ELSE HttpRequest("admitted", agent_id, 0)
    /\ UNCHANGED <<check, quiet, lastAudit, approvalAudit, writerVars, mode,
                   cacheVars,
                   approvalVars, pc, evalVars, procVars, decisionVars, scan,
                   listing, cacheCall>>

\* the response of a middleware that did not call the next handler goes
\* back to the client
Reply ==
  /\ http.stage = "answered"
  /\ http' = NoHttp
  /\ UNCHANGED <<lastAudit, approvalAudit, writerVars, mode, cacheVars,
                 approvalVars, pc,
                 evalVars, procVars, limiterVars, decisionVars, scan, listing,
                 cacheCall>>

\* requests sent to the evaluate endpoint through the middleware stack
GatewayRequests ==
  { r \in PipelineRequests :
      /\ r.request_id = 1
      /\ r.action_type \in {"payment", "api_call"}
      /\ r.parameters.amount \in {Absent, NumV(20000)} }

\* evaluate_request is called by the last middleware and calls evaluate
EvaluateAdmitted ==
  /\ http.stage = "admitted"
  /\ EvaluateFrom(GatewayRequests)

\* evaluate_request after process: write the audit row (log_audit swallows
\* a failing write) and return the response through the middlewares
RespondAudited ==
  \E written \in BOOLEAN :
    /\ pc = "processed"
    /\ http.stage = "admitted"
    /\ lastAudit' =
         IF written
         THEN AuditLogEntry(request.request_id, http.agent_id,
                            request.action_type, evaluation.risk_score,
                            response.decision)
         ELSE NoAudit
    /\ http' = NoHttp
    /\ pc' = "idle"
    /\ request' = NoRequest
    /\ policies' = <<>>
    /\ evaluated' = <<>>
    /\ evaluation' = NoEvaluation
    /\ evalMode' = "ENFORCE"
    /\ response' = NoResponse
    /\ procMode' = "ENFORCE"
    /\ listing' = NoListing
    /\ UNCHANGED <<approvalAudit, writerVars, limiterVars, decisionVars, scan,
                   cacheCall,
                   mode, cacheVars, approvalVars>>

\* ---------------------------------------------------- approval hand-off
\* request_approval with the webhook sent before the record is stored
webhook_before_store == <<"webhook", "store">>

\* ApprovalService.request_approval after it has built the ApprovalRequest:
\* the awaited calls it makes, in the order it makes them
request_approval == <<"store", "webhook">>

\* process asks for an approval on the evaluation in flight
Asks == evaluation.decision = "pending_approval" /\ mode = "ENFORCE"

\* The k-th awaited call of request_approval, made from process on the
\* ENFORCE + pending_approval branch. Before the first call process has
\* read the mode and request_approval has drawn the approval id; after the
\* second request_approval returns and process fills in the response.
\* store_pending_approval swallows a raising SETEX, _send_approval_webhook
\* every outcome of the POST.
ApprovalStep(k) ==
  \E stored \in BOOLEAN,
     hook \in {"accepted", "other_status", "timeout", "request_error"} :
    LET step == request_approval[k]
        approval_id == IF k = 1 THEN nextApprovalId ELSE nextApprovalId - 1
        approval == ApprovalRequest(approval_id, request, evaluation)
    IN
    /\ step = "store" => hook = "accepted"
    /\ step = "webhook" => stored
    /\ approvalStore' =
         IF step = "store" /\ stored
         THEN approvalStore \cup {[record |-> approval, ttl |-> ApprovalTtl]}
         ELSE approvalStore
    /\ webhookLog' =
         IF step = "webhook"
         THEN webhookLog \cup {[payload |-> approval, outcome |-> hook]}
         ELSE webhookLog
    /\ IF k = 1
       THEN /\ pc = "evaluated"
            /\ Asks
            /\ nextApprovalId <= MaxApprovals
            /\ nextApprovalId' = nextApprovalId + 1
            /\ procMode' = mode
            /\ pc' = "approving"
            /\ UNCHANGED response
       ELSE /\ pc = "approving"
            /\ response' = process(request, evaluation, procMode, approval_id)
            /\ pc' = "processed"
            /\ UNCHANGED <<nextApprovalId, procMode>>
    /\ UNCHANGED <<sideVars, mode, cacheVars, evalVars>>

RequestApprovalFirst == ApprovalStep(1)
RequestApprovalSecond == ApprovalStep(2)

\* process on the branches that ask for no approval
ProcessDirect == ~Asks /\ Process

\* requests that the default rules send to human approval
ApprovalShapes ==
  { AgentRequest(0, "payment", R_orders, NumV(20000), Absent, Absent, NoJust) }
ApprovalRequests == { [r EXCEPT !.request_id = 1] : r \in ApprovalShapes }

\* evaluate_request receiving such a request
EvaluateRisky == EvaluateFrom(ApprovalRequests)

\* ApprovalService.process_approval_decision up to the response it builds:
\* look the record up; without one (no key, or GET raised) return None at
\* once, else build the ApprovalResponse and go on to delete the record.
\* `late` notes that a response for the id had been returned before this
\* call began.
LookUpApproval ==
  \E c \in Callers, approval_id \in ApprovalIds, approved \in BOOLEAN,
     readOk \in BOOLEAN :
    LET approval_data == get_pending_approval(approvalStore, approval_id,
                                              readOk)
        late == \E r \in answered : r.approval_id = approval_id
    IN
    /\ decision[c].pc = "idle"
    /\ IF approval_data = {}
       THEN /\ lastDecision' =
                 [late |-> late, response |-> NoApprovalResponse(approval_id)]
            /\ UNCHANGED decision
       ELSE /\ decision' = [decision EXCEPT ![c] =
                 [pc |-> "found", late |-> late,
                  response |-> ApprovalResponse(approval_id, approved)]]
            /\ lastDecision' = NoDecision
    /\ UNCHANGED <<answered, mode, cacheVars, approvalVars, pc, evalVars,
                   procVars, limiterVars, scan, listing,
                   cacheCall, edgeVars>>

\* process_approval_decision from the delete on: remove the record from
\* pending (the result of delete_pending_approval is not looked at) and
\* return the response
DecideCall(endpoint) ==
  \E c \in Callers, deleteOk \in BOOLEAN :
    LET reply == decision[c].response IN
    /\ decision[c].pc = "found"
    /\ approvalStore' = delete_pending_approval(approvalStore,
                                                reply.approval_id, deleteOk)
    /\ lastDecision' = [late |-> decision[c].late, response |-> reply]
    /\ answered' = answered \cup {reply}
    /\ decision' = [decision EXCEPT ![c] =
         IF endpoint THEN [decision[c] EXCEPT !.pc = "decided"] ELSE NoCall]
    /\ UNCHANGED <<webhookLog, nextApprovalId, mode, cacheVars, pc, evalVars,
                   procVars, limiterVars, scan, listing,
                   cacheCall, edgeVars>>

\* process_approval_decision called by the approval service itself
DecideApproval == DecideCall(FALSE)

\* process_approval_decision called by submit_approval_decision, which
\* goes on with the response
DecideForEndpoint == DecideCall(TRUE)

\* submit_approval_decision after process_approval_decision has returned a
\* response: read the approval again with get_approval_status (None when
\* the key is gone or GET raises), hand log_approval the fields of the
\* record, or the placeholders when there is none, and return the
\* response. log_approval swallows a failing insert.
LogApproval ==
  \E c \in Callers, readOk \in BOOLEAN, written \in BOOLEAN :
    LET reply == decision[c].response
        approval_id == reply.approval_id
        approval_data == get_pending_approval(approvalStore, approval_id,
                                              readOk)
        row(data) ==
          ApprovalAudit(approval_id, data.request_id, data.agent_id,
                        data.action_type, data.risk_score, reply.status)
    IN
    /\ decision[c].pc = "decided"
    /\ approvalAudit' =
         IF ~written THEN approvalAudit
         ELSE IF approval_data # {}
         THEN row((CHOOSE rec \in approval_data : TRUE).record)
         ELSE ApprovalAudit(approval_id, approval_id, "unknown", "unknown", 0,
                            reply.status)
    /\ decision' = [decision EXCEPT ![c] = NoCall]
    /\ lastDecision' = NoDecision
    /\ UNCHANGED <<answered, http, lastAudit, writerVars, approvalVars, mode,
                   cacheVars, pc, evalVars, procVars, limiterVars, scan,
                   listing, cacheCall>>

\* 24 h after store_pending_approval the TTL of a record runs out and Redis
\* removes the key
ExpireApproval ==
  \E rec \in approvalStore :
    /\ approvalStore' = approvalStore \ {rec}
    /\ lastDecision' = NoDecision
    /\ UNCHANGED <<decision, answered, webhookLog, nextApprovalId, mode,
                   cacheVars, pc, evalVars, procVars, limiterVars, scan,
                   listing, cacheCall, edgeVars>>

\* sanitize_text on a string leaf of request.parameters or request.context
ScanText ==
  \E engine \in Engines, text \in Texts :
    /\ scan' = [stage |-> "scanned", engine |-> engine, text |-> text,
                first |-> SanitizeText(engine, text),
                second |-> ScanResult(<<>>, {})]
    /\ UNCHANGED <<mode, cacheVars, approvalVars, pc, evalVars, procVars,
                   limiterVars, decisionVars, listing, cacheCall, edgeVars>>

\* a second run of the same scanner on the string the first run returned
ScanAgain ==
  /\ scan.stage = "scanned"
  /\ scan' = [scan EXCEPT !.stage = "rescanned",
                          !.second = SanitizeText(scan.engine,
                                                  scan.first.masked)]
  /\ UNCHANGED <<mode, cacheVars, approvalVars, pc, evalVars, procVars,
                 limiterVars, decisionVars, listing, cacheCall, edgeVars>>

\* ---------------------------------------------------------- specifications
\* the request pipeline: evaluate, process, respond, with mode changes
Next == SetMode \/ EvaluateRequest \/ Process \/ Respond
Spec == Init /\ [][Next]_vars

\* an approval handed to the approval service while decisions come in
NextHandoff ==
  \/ EvaluateRisky
  \/ RequestApprovalFirst
  \/ RequestApprovalSecond
  \/ ProcessDirect
  \/ Respond
  \/ LookUpApproval
  \/ DecideApproval
  \/ ExpireApproval
SpecHandoff == Init /\ [][NextHandoff]_vars

\* the evaluate endpoint behind its middlewares
NextGateway ==
  \/ Authenticate
  \/ RateLimitDispatch
  \/ Reply
  \/ EvaluateAdmitted
  \/ Process
  \/ RespondAudited
  \/ Tick
SpecGateway == Init /\ [][NextGateway]_vars

\* the policy engine over a cache that operators write and TTLs empty
NextEval ==
  SetMode \/ StorePolicy \/ DeletePolicy \/ ExpirePolicy \/ Evaluate
    \/ ReturnResult
SpecEval == Init /\ [][NextEval]_vars

\* the rate limiter under concurrent handlers and passing time
NextRate == CheckRateLimit \/ SetWindowExpiry \/ Tick
SpecRate == Init /\ [][NextRate]_vars

\* the rate limiter with the silence of each agent measured
NextQuiet == CheckTimed \/ SetWindowExpiry \/ TickTimed
SpecQuiet == Init /\ [][NextQuiet]_vars

\* approval records from their creation to a decision or their expiry,
\* with two callers submitting decisions
NextApproval ==
  EvaluateRisky \/ Process \/ Respond \/ LookUpApproval \/ DecideApproval
    \/ ExpireApproval
SpecApproval == Init /\ [][NextApproval]_vars

\* the same with the decisions submitted through the decision endpoint,
\* which writes the approval audit
NextAudit ==
  EvaluateRisky \/ Process \/ Respond \/ LookUpApproval \/ DecideForEndpoint
    \/ LogApproval \/ ExpireApproval
SpecAudit == Init /\ [][NextAudit]_vars

\* the policy cache written and listed
NextCache ==
  StoreCall(TRUE) \/ DeleteCall(TRUE) \/ ExpirePolicy \/ GetAllPolicies
    \/ GetPolicy

\* writers on the policy cache, their commands interleaved
NextWriters == BeginStore \/ BeginDelete \/ BeginRefresh \/ SendCommand
SpecWriters == Init /\ [][NextWriters]_vars

\* requests evaluated while refresh_policies replaces the cached rules
NextSwap == BeginRefreshAlone \/ SendCommand \/ EvaluateRisky \/ ReturnResult
SpecSwap == Init /\ [][NextSwap]_vars

\* the policy cache replaced by refresh_policies
NextRefresh == StorePolicy \/ ExpirePolicy \/ RefreshPolicies
SpecRefresh == Init /\ [][NextRefresh]_vars
SpecCache == Init /\ [][NextCache]_vars

\* the PII scanner run twice on a string
NextScan == ScanText \/ ScanAgain
SpecScan == Init /\ [][NextScan]_vars

\* ------------------------------------------------------------- properties
Range(seq) == { seq[i] : i \in 1..Len(seq) }

\* an evaluation result is held for the request in flight
Evaluated == pc \in {"evaluated", "processed"}

\* the rule of the evaluated list that carries the id
RuleOf(rule_id) == CHOOSE p \in Range(policies) : p.rule_id = rule_id

RECURSIVE SumModifiers(_)
SumModifiers(rule_ids) ==
  IF rule_ids = <<>> THEN 0
  ELSE RuleOf(rule_ids[1]).risk_score_modifier + SumModifiers(Tail(rule_ids))

\* an exception left the rule loop of the evaluation in flight
EvaluationRaised == Match(policies, request).raised

\* the rule's conditions are violated by the request in flight
Violates(policy) ==
  /\ policy.enabled
  /\ request.action_type \in policy.action_types
  /\ _evaluate_conditions(policy, request,
                          sanitize_dict(request.parameters)).violation

\* C1: whenever process ran with the gateway in SHADOW mode, whatever the
\* evaluation decision was, the response is forwarded and its decision is
\* allow or shadow_logged.
C1_ShadowNeverBlocks ==
  (pc = "processed" /\ procMode = "SHADOW") =>
    /\ response.forwarded
    /\ response.decision \in {"allow", "shadow_logged"}

\* process ran in SHADOW mode on an evaluation that had decided deny
C1_Witness ==
  /\ pc = "processed"
  /\ procMode = "SHADOW"
  /\ evaluation.decision = "deny"

\* C2: the response of process follows the mapping table: allow is forwarded
\* as allow in both modes; shadow_logged is forwarded in both modes;
\* pending_approval is forwarded as shadow_logged under SHADOW and returned
\* as pending_approval, not forwarded, under ENFORCE; deny is forwarded as
\* shadow_logged under SHADOW and returned as deny, not forwarded, under
\* ENFORCE.
C2_MappingTable ==
  pc = "processed" =>
    LET d == evaluation.decision IN
    /\ d = "allow" => response.decision = "allow" /\ response.forwarded
    /\ d = "shadow_logged" => response.forwarded
    /\ (d = "pending_approval" /\ procMode = "SHADOW") =>
         response.decision = "shadow_logged" /\ response.forwarded
    /\ (d = "pending_approval" /\ procMode = "ENFORCE") =>
         response.decision = "pending_approval" /\ ~response.forwarded
    /\ (d = "deny" /\ procMode = "SHADOW") =>
         response.decision = "shadow_logged" /\ response.forwarded
    /\ (d = "deny" /\ procMode = "ENFORCE") =>
         response.decision = "deny" /\ ~response.forwarded

\* process ran under ENFORCE on an evaluation decided shadow_logged (the
\* mode changed between evaluate and process)
C2_Witness ==
  /\ pc = "processed"
  /\ procMode = "ENFORCE"
  /\ evaluation.decision = "shadow_logged"
  /\ response.forwarded

\* C3: a step of process adds an approval record to the store and sends the
\* webhook exactly when the evaluation decision is pending_approval and the
\* mode is ENFORCE; in every other case the store and the webhook log are
\* unchanged and the response has approval_required = false and no
\* approval id.
C3_ApprovalIffEnforcePending ==
  [][ (pc = "evaluated" /\ pc' = "processed") =>
      LET asks == evaluation.decision = "pending_approval"
                    /\ mode = "ENFORCE"
      IN
      /\ asks =>
           /\ \E a \in approvalStore' \ approvalStore :
                a.record.approval_id = response'.approval_id
           /\ webhookLog' # webhookLog
      /\ ~asks =>
           /\ approvalStore' = approvalStore
           /\ webhookLog' = webhookLog
           /\ ~response'.approval_required
           /\ response'.approval_id = NoApprovalId ]_vars

\* C4: when the evaluation did not fail, the risk score is the clamped sum
\* of the matched rules' modifiers and the decision follows from it and the
\* mode: at or above the block threshold deny under ENFORCE and
\* shadow_logged under SHADOW, else at or above the approval threshold
\* pending_approval in both modes, else allow.
C4_DecisionFromScore ==
  (Evaluated /\ ~EvaluationRaised) =>
    LET total == SumModifiers(evaluation.matched_rules)
        score == IF total < 0 THEN 0 ELSE IF total > 100 THEN 100 ELSE total
    IN
    /\ evaluation.risk_score = score
    /\ score >= 100 =>
         evaluation.decision =
           (IF evalMode = "ENFORCE" THEN "deny" ELSE "shadow_logged")
    /\ (score >= 80 /\ score < 100) =>
         evaluation.decision = "pending_approval"
    /\ score < 80 => evaluation.decision = "allow"

\* an evaluation under SHADOW whose score reached the block threshold
C4_Witness ==
  /\ pc = "evaluated"
  /\ ~EvaluationRaised
  /\ evalMode = "SHADOW"
  /\ evaluation.risk_score = 100
  /\ evaluation.decision = "shadow_logged"

\* C5: every result of evaluate, failed or not, has a risk score within
\* [0, 1] and the risk level that belongs to the score: critical from 0.8,
\* high from 0.5, medium from 0.2, low below.
C5_ScoreAndLevel ==
  Evaluated =>
    /\ evaluation.risk_score >= 0
    /\ evaluation.risk_score <= 100
    /\ evaluation.risk_level = "critical" <=> evaluation.risk_score >= 80
    /\ evaluation.risk_level = "high" <=>
         (evaluation.risk_score >= 50 /\ evaluation.risk_score < 80)
    /\ evaluation.risk_level = "medium" <=>
         (evaluation.risk_score >= 20 /\ evaluation.risk_score < 50)
    /\ evaluation.risk_level = "low" <=> evaluation.risk_score < 20

\* the matched modifiers add up to less than 0 and the score is clamped to 0
C5_Witness ==
  /\ pc = "evaluated"
  /\ ~EvaluationRaised
  /\ SumModifiers(evaluation.matched_rules) < 0
  /\ evaluation.risk_score = 0
  /\ evaluation.risk_level = "low"

\* C6 as stated: a result with decision deny has at least one denial reason
\* and a non-empty list of matched rules.
C6_DenyHasReasonAndRule ==
  (Evaluated /\ evaluation.decision = "deny") =>
    /\ Len(evaluation.denial_reasons) >= 1
    /\ evaluation.matched_rules # <<>>

\* C6 amended: a result with decision deny has at least one denial reason,
\* and a non-empty list of matched rules unless the evaluation failed.
C6_DenyHasReason ==
  (Evaluated /\ evaluation.decision = "deny") =>
    /\ Len(evaluation.denial_reasons) >= 1
    /\ ~EvaluationRaised => evaluation.matched_rules # <<>>

\* a failed evaluation: deny with the error as its only reason and no rule
C6_Witness ==
  /\ pc = "evaluated"
  /\ EvaluationRaised
  /\ evaluation.decision = "deny"
  /\ evaluation.matched_rules = <<>>
  /\ Len(evaluation.denial_reasons) = 1

\* C7 as stated: in a result with decision allow every matched rule has a
\* modifier below the approval threshold.
C7_AllowOnlyLowModifiers ==
  (Evaluated /\ evaluation.decision = "allow") =>
    \A id \in Range(evaluation.matched_rules) :
      RuleOf(id).risk_score_modifier < risk_score_approval_threshold

\* C7 amended: in a result with decision allow the modifiers of the matched
\* rules add up to less than the approval threshold; each of them is below
\* the threshold when no matched rule has a negative modifier.
C7_AllowSumBelowApproval ==
  (Evaluated /\ evaluation.decision = "allow") =>
    LET ids == Range(evaluation.matched_rules) IN
    /\ SumModifiers(evaluation.matched_rules) < risk_score_approval_threshold
    /\ (\A id \in ids : RuleOf(id).risk_score_modifier >= 0) =>
         \A id \in ids :
           RuleOf(id).risk_score_modifier < risk_score_approval_threshold

\* allow although a matched rule carries a modifier at or above the
\* approval threshold: a negative modifier pulled the sum down
C7_Witness ==
  /\ pc = "evaluated"
  /\ evaluation.decision = "allow"
  /\ \E id \in Range(evaluation.matched_rules) :
       RuleOf(id).risk_score_modifier >= risk_score_approval_threshold

\* C8: when a step of evaluate raises, the result is deny with risk score
\* 1.0, level critical and exactly one denial reason, the one describing
\* the failure, whatever had matched before.
C8_FailureSingleReason ==
  (Evaluated /\ EvaluationRaised) =>
    /\ evaluation.decision = "deny"
    /\ evaluation.risk_score = 100
    /\ evaluation.risk_level = "critical"
    /\ evaluation.denial_reasons = <<EvaluationError>>

\* C9: the rules whose conditions are evaluated are taken in ascending
\* priority order, from the cache and from the built-in defaults alike, and
\* a rule stored with enabled = false is neither evaluated nor matched.
C9_PriorityOrder ==
  Evaluated =>
    /\ \A i, j \in 1..Len(evaluated) :
         i < j => RuleOf(evaluated[i]).priority <= RuleOf(evaluated[j]).priority
    /\ \A i, j \in 1..Len(evaluation.matched_rules) :
         i < j => RuleOf(evaluation.matched_rules[i]).priority
                    <= RuleOf(evaluation.matched_rules[j]).priority
    /\ \A id \in (Range(evaluated) \cup Range(evaluation.matched_rules)) :
         /\ RuleOf(id).enabled
         /\ id \in RuleIds => policyStore[id].enabled

\* two cached rules of different priority were evaluated while a disabled
\* rule for the same action type sat in the cache
C9_Witness ==
  /\ pc = "evaluated"
  /\ Len(evaluated) >= 2
  /\ RuleOf(evaluated[1]).priority < RuleOf(evaluated[2]).priority
  /\ "x" \in policyIndex
  /\ policyStore["x"] # NoRule
  /\ ~policyStore["x"].enabled
  /\ request.action_type \in policyStore["x"].action_types

\* the evaluated list with the priorities of its i-th and j-th rule swapped
SwapPriorities(ps, i, j) ==
  [k \in 1..Len(ps) |->
     IF k = i THEN [ps[i] EXCEPT !.priority = ps[j].priority]
     ELSE IF k = j THEN [ps[j] EXCEPT !.priority = ps[i].priority]
     ELSE ps[k]]

\* the orders in which a rule set may be visited: ascending priority, rules
\* of equal priority in any order
VisitOrders(ps) ==
  { SortByPriority([k \in 1..Len(ps) |-> ps[o[k]]]) :
      o \in Orders(1..Len(ps)) }

SameOutcome(e1, e2) ==
  /\ e1.risk_score = e2.risk_score
  /\ Range(e1.matched_rules) = Range(e2.matched_rules)

\* C10: swapping the priorities of two rules that both violate changes
\* neither the risk score nor the set of matched rules, and neither does
\* the order in which rules of equal priority are visited.
C10_OrderIndependent ==
  pc = "evaluated" =>
    /\ \A i, j \in 1..Len(policies) :
         (i < j /\ Violates(policies[i]) /\ Violates(policies[j])) =>
           \A ps \in VisitOrders(SwapPriorities(policies, i, j)) :
             SameOutcome(evaluation, evaluate(request, ps, evalMode))
    /\ (\E i, j \in 1..Len(policies) :
          i < j /\ policies[i].priority = policies[j].priority) =>
         \A ps \in VisitOrders(policies) :
           SameOutcome(evaluation, evaluate(request, ps, evalMode))

\* is_allowed=true answers the agent was given in the last `ticks` ticks
RECURSIVE AllowedWithin(_, _)
AllowedWithin(agent_id, ticks) ==
  IF ticks = 0 THEN 0
  ELSE recentAllowed[agent_id][ticks - 1] + AllowedWithin(agent_id, ticks - 1)

\* the last step ended a call of check_rate_limit
CallEnded == lastCheck # NoOutcome

\* C11 as stated: for every agent and every interval of length W, wherever
\* it starts, at most Q calls of check are answered allowed=true within it.
C11_SlidingWindow ==
  \A a \in Observed :
    AllowedWithin(a, rate_limit_window_seconds) <= rate_limit_requests

\* C11 amended: during one lifetime of an agent's counter key at most Q
\* increments reply a count within the quota, and a call that did not fail
\* open is answered allowed=true only for such a count.
C11_FixedWindow ==
  /\ \A a \in Observed : grantedInWindow[a] <= rate_limit_requests
  /\ (CallEnded /\ ~lastCheck.raised /\ lastCheck.is_allowed) =>
       lastCheck.current_count <= rate_limit_requests

\* the window of the agent is used up, and with the answers given at the
\* end of the window before it more than Q were allowed within W ticks
C11_Witness ==
  \E a \in Observed :
    /\ grantedInWindow[a] = rate_limit_requests
    /\ rateCount[a] = rate_limit_requests
    /\ recentAllowed[a][0] = rate_limit_requests
    /\ AllowedWithin(a, rate_limit_window_seconds) > rate_limit_requests

\* C12: a call of check increments the counter of its agent by one and no
\* other counter, whether it is answered allowed or not; the count it is
\* answered for is the value after its increment; the answer is
\* allowed = (count <= Q), remaining = max(0, Q - count); and a call that
\* made the first increment of a window leaves the key with expiry W.
C12_CheckContract ==
  [][ /\ \A a \in Agents :
           (rateCount'[a] # rateCount[a] /\ rateCount'[a] # 0) =>
             /\ rateCount'[a] = rateCount[a] + 1
             /\ \A b \in Agents \ {a} :
                  rateCount'[b] = rateCount[b] /\ rateTtl'[b] = rateTtl[b]
      /\ \A h \in Handlers :
           (check[h].pc = "idle" /\ check'[h].pc = "incremented") =>
             /\ rateCount'[check'[h].agent_id] =
                  rateCount[check'[h].agent_id] + 1
             /\ check'[h].current_count = rateCount'[check'[h].agent_id]
      /\ (lastCheck' # NoOutcome /\ ~lastCheck'.raised) =>
           LET a == lastCheck'.agent_id
               count == lastCheck'.current_count
               waited == \E h \in Handlers : check[h].pc = "incremented"
                                               /\ check'[h].pc = "idle"
           IN
           /\ lastCheck'.is_allowed = (count <= rate_limit_requests)
           /\ lastCheck'.remaining =
                (IF count >= rate_limit_requests THEN 0
                 ELSE rate_limit_requests - count)
           /\ ~waited => (count = rateCount[a] + 1 /\ count = rateCount'[a])
           /\ waited => \E h \in Handlers :
                          /\ check[h].pc = "incremented"
                          /\ check[h].agent_id = a
                          /\ check[h].current_count = count
           /\ (count = 1 /\ rateCount'[a] # 0) =>
                rateTtl'[a] = rate_limit_window_seconds ]_vars

\* a call over the quota was answered allowed=false, its increment stands,
\* and the other agent's counter is in use
C12_Witness ==
  /\ CallEnded
  /\ ~lastCheck.raised
  /\ ~lastCheck.is_allowed
  /\ lastCheck.remaining = 0
  /\ rateCount[lastCheck.agent_id] = lastCheck.current_count
  /\ lastCheck.current_count > rate_limit_requests
  /\ \E b \in Agents \ {lastCheck.agent_id} : rateCount[b] > 0

\* C13: a call of check during which the store raised is answered
\* allowed=true with remaining=Q, and the middleware hands the request on.
C13_FailOpen ==
  (CallEnded /\ lastCheck.raised) =>
    /\ lastCheck.is_allowed
    /\ lastCheck.remaining = rate_limit_requests
    /\ lastCheck.next = "call_next"

\* the store raised for an agent whose counter is over the quota
C13_Witness ==
  /\ CallEnded
  /\ lastCheck.raised
  /\ lastCheck.next = "call_next"
  /\ rateCount[lastCheck.agent_id] > rate_limit_requests

\* ids of the approval records in a store
IdsOf(store) == { rec.record.approval_id : rec \in store }

\* the step ends a call of process_approval_decision (the steps of the
\* request pipeline move pc, an expiry clears lastDecision)
DecisionEnds == pc' = pc /\ lastDecision' # NoDecision

\* C14: a call of process_decision that begins after a response was
\* returned for its approval id returns absent; a call for an id that was
\* never created returns absent and changes neither the approval store nor
\* the webhook log.
C14_SecondCallAbsent ==
  [][ DecisionEnds =>
        LET reply == lastDecision'.response IN
        /\ lastDecision'.late => reply.status = "absent"
        /\ reply.approval_id >= nextApprovalId =>
             /\ reply.status = "absent"
             /\ approvalStore' = approvalStore
             /\ webhookLog' = webhookLog ]_vars

\* C15: two callers never both hold an ApprovalResponse for the same
\* approval id, and the responses returned for one id never include both
\* approved and denied.
C15_OneWinner ==
  /\ \A c1, c2 \in Callers :
       (c1 # c2 /\ decision[c1].pc = "found" /\ decision[c2].pc = "found") =>
         decision[c1].response.approval_id # decision[c2].response.approval_id
  /\ \A r1, r2 \in answered :
       r1.approval_id = r2.approval_id => r1.status = r2.status

\* C16: an approval record enters the store under a fresh id with a TTL of
\* 24 h; it leaves the store only through the delete of a decision on its
\* id or through its expiry; when a decision call returns a response the
\* record is gone; a call on an id that has no record finds none; and an id
\* whose record is gone never has a record again.
C16_Lifecycle ==
  [][ /\ \A rec \in approvalStore' \ approvalStore :
           /\ rec.ttl = ApprovalTtl
           /\ rec.record.approval_id = nextApprovalId
           /\ nextApprovalId' = nextApprovalId + 1
      /\ \A rec \in approvalStore \ approvalStore' :
           \/ \E c \in Callers :
                /\ decision[c].pc = "found"
                /\ decision'[c].pc = "idle"
                /\ decision[c].response.approval_id = rec.record.approval_id
           \/ (pc' = pc /\ decision' = decision /\ lastDecision' = NoDecision)
      /\ (DecisionEnds /\ lastDecision'.response.status # "absent") =>
           lastDecision'.response.approval_id \notin IdsOf(approvalStore')
      /\ \A c \in Callers :
           (decision[c].pc = "idle" /\ decision'[c].pc = "found") =>
             decision'[c].response.approval_id \in IdsOf(approvalStore)
      /\ \A id \in 1..(nextApprovalId - 1) :
           id \notin IdsOf(approvalStore) => id \notin IdsOf(approvalStore')
    ]_vars

\* C17: on the ENFORCE + pending_approval path process answers
\* pending_approval with the approval id whatever the outcome of the
\* webhook, the webhook is posted once, and after a webhook that was not
\* accepted the approval record is in the store, pending, for a later
\* decision to find.
C17_WebhookFailureKeepsRecord ==
  [][ ( /\ pc = "evaluated"
        /\ pc' = "processed"
        /\ evaluation.decision = "pending_approval"
        /\ mode = "ENFORCE" ) =>
        /\ response'.decision = "pending_approval"
        /\ response'.approval_required
        /\ response'.approval_id = nextApprovalId
        /\ Cardinality(webhookLog' \ webhookLog) = 1
        /\ \A w \in webhookLog' \ webhookLog :
             /\ w.payload.approval_id = response'.approval_id
             /\ w.outcome # "accepted" =>
                  response'.approval_id \in IdsOf(approvalStore') ]_vars

\* an ApprovalRequest whose parameters and context hold no unmasked entity
CarriesNoPii(approval) ==
  /\ approval.sanitized_parameters = sanitize_dict(approval.sanitized_parameters)
  /\ approval.context = sanitize_dict(approval.context)

\* C18: every approval record in the store and every webhook payload sent
\* carries the masked parameters and the masked context, never a raw one.
C18_OnlySanitizedLeaves ==
  /\ \A rec \in approvalStore : CarriesNoPii(rec.record)
  /\ \A w \in webhookLog : CarriesNoPii(w.payload)

\* C19: a second run of the scanner on what the first run returned finds no
\* entity and returns the string as it is (masking is idempotent), and a
\* string in which the first run finds no entity is returned unchanged
\* with an empty list.
C19_MaskingIdempotent ==
  /\ scan.stage = "rescanned" =>
       /\ scan.second.masked = scan.first.masked
       /\ scan.second.detected = {}
  /\ (scan.stage # "idle" /\ scan.first.detected = {}) =>
       scan.first.masked = scan.text

\* the rules under the keys the index names that are there and enabled
ListedRules ==
  { policyStore[id] :
      id \in { i \in policyIndex :
                 policyStore[i] # NoRule /\ policyStore[i].enabled } }

\* a sequence that holds exactly the rules of ListedRules, each once, in
\* ascending priority
IsActiveListing(ps) ==
  /\ { ps[i] : i \in 1..Len(ps) } = ListedRules
  /\ Len(ps) = Cardinality(ListedRules)
  /\ \A i, j \in 1..Len(ps) : i < j => ps[i].priority <= ps[j].priority
  /\ \A i \in 1..Len(ps) : ps[i].enabled
  /\ (policyIndex = {} \/ \A id \in policyIndex : policyStore[id] = NoRule)
       => ps = <<>>

\* C20: every call of get_all_policies returns exactly the rules that are
\* indexed, unexpired and enabled, in ascending priority, the empty
\* sequence when the index has no members or every indexed entry has
\* expired, and never a rule stored with enabled=false.
C20_ListActive == listing # NoListing => IsActiveListing(listing.policies)

\* C20 (amended): a call of get_all_policies in which no command raises
\* returns exactly the rules that are indexed, unexpired and enabled, in
\* ascending priority, empty when the index has no members or every indexed
\* entry has expired, never a disabled rule; a call in which a command
\* raises returns the empty sequence.
C20_ListActiveUnlessRaised ==
  listing # NoListing =>
    IF listing.raised THEN listing.policies = <<>>
    ELSE IsActiveListing(listing.policies)

\* a call without failure returned two rules while a disabled rule is
\* indexed and stored
C20_Witness ==
  /\ listing # NoListing
  /\ ~listing.raised
  /\ Len(listing.policies) = 2
  /\ listing.policies[1].priority < listing.policies[2].priority
  /\ \E id \in policyIndex :
       policyStore[id] # NoRule /\ ~policyStore[id].enabled

\* the ids of the rules get_all_policies may return on the cache as it
\* stands after the step, whatever order SMEMBERS replies in
ListedAfter ==
  { p.rule_id : p \in UNION { Range(get_all_policies(policyStore', order)) :
                                order \in Orders(policyIndex') } }

\* the step ends a call of delete_policy
DeleteEnds == cacheCall'.op = "delete"

\* the step leaves the entries and the index membership of every rule but
\* the one it was called on as they were
OthersUntouched ==
  \A id \in RuleIds \ {cacheCall'.rule_id} :
    /\ policyStore'[id] = policyStore[id]
    /\ id \in policyIndex' <=> id \in policyIndex

\* C21: after delete(rule_id) the entry and the index membership are gone,
\* get(rule_id) returns absent and list_active does not contain the rule;
\* deleting an absent rule_id succeeds and changes nothing, and every other
\* rule and index member is left as it was.
C21_DeleteRemoves ==
  [][ DeleteEnds =>
      LET rule_id == cacheCall'.rule_id IN
      /\ rule_id \notin policyIndex'
      /\ get_policy(policyStore', rule_id, "ok") = NoRule
      /\ rule_id \notin ListedAfter
      /\ (policyStore[rule_id] = NoRule /\ rule_id \notin policyIndex) =>
           /\ cacheCall'.returned
           /\ policyStore' = policyStore
           /\ policyIndex' = policyIndex
      /\ OthersUntouched ]_vars

\* C21 (amended): a delete(rule_id) in which no command raises returns true
\* and leaves neither the entry nor the index membership, so that get
\* returns absent and list_active does not contain the rule; on an absent
\* rule_id it changes nothing. A delete in which a command raises returns
\* false and leaves the index as it was and the entry either untouched or
\* removed. Every other rule and index member is left as it was.
C21_DeleteRemovesUnlessRaised ==
  [][ DeleteEnds =>
      LET rule_id == cacheCall'.rule_id IN
      /\ cacheCall'.returned <=> ~cacheCall'.raised
      /\ cacheCall'.returned =>
           /\ rule_id \notin policyIndex'
           /\ get_policy(policyStore', rule_id, "ok") = NoRule
           /\ rule_id \notin ListedAfter
           /\ (policyStore[rule_id] = NoRule /\ rule_id \notin policyIndex) =>
                policyStore' = policyStore /\ policyIndex' = policyIndex
      /\ ~cacheCall'.returned =>
           /\ policyIndex' = policyIndex
           /\ policyStore'[rule_id] \in {policyStore[rule_id], NoRule}
      /\ OthersUntouched ]_vars

\* a delete returned true on a rule that was stored, enabled and indexed
\* while another rule is still listed
C21_Witness ==
  /\ cacheCall.op = "delete"
  /\ cacheCall.returned
  /\ policyStore[cacheCall.rule_id] = NoRule
  /\ cacheCall.rule_id \notin policyIndex
  /\ \E id \in policyIndex : policyStore[id] # NoRule /\ policyStore[id].enabled

\* the step ends a call of refresh_policies
RefreshEnds == cacheCall'.op = "refresh"

\* the ids of the rules handed to the call the step ends
GivenIds == { p.rule_id : p \in cacheCall'.given }

\* C22: after refresh(rules) with no concurrent writer every rule that was
\* indexed before the call and is not among the given rules is gone, the
\* rules retrievable from the cache are exactly the given rules whose store
\* succeeded, and the number returned is the number of those.
C22_RefreshReplaces ==
  [][ RefreshEnds =>
      /\ \A id \in policyIndex \ GivenIds : policyStore'[id] = NoRule
      /\ { policyStore'[id] : id \in { i \in RuleIds :
                                          policyStore'[i] # NoRule } }
           = { p \in cacheCall'.given : p.rule_id \in cacheCall'.stored }
      /\ cacheCall'.count = Cardinality(cacheCall'.stored) ]_vars

\* C22 (amended): after refresh(rules) with no concurrent writer the number
\* returned is the number of given rules whose store returned true, and
\* each of these is retrievable and indexed; every rule indexed before
\* whose delete returned true and that is not among the given rules is
\* gone; every entry of the cache is a given rule or an entry that was
\* there before. When no command raises, the index holds exactly the ids of
\* the given rules and every rule indexed before and not given is gone.
C22_RefreshReplacesWhatSucceeded ==
  [][ RefreshEnds =>
      LET call == cacheCall' IN
      /\ call.count = Cardinality(call.stored)
      /\ call.stored \subseteq GivenIds
      /\ call.deleted \subseteq policyIndex
      /\ \A p \in call.given :
           p.rule_id \in call.stored =>
             policyStore'[p.rule_id] = p /\ p.rule_id \in policyIndex'
      /\ \A id \in call.deleted \ GivenIds :
           policyStore'[id] = NoRule /\ id \notin policyIndex'
      /\ \A id \in RuleIds :
           policyStore'[id] \in
             {policyStore[id], NoRule}
               \cup { p \in call.given : p.rule_id = id }
      /\ ~call.raised =>
           /\ call.deleted = policyIndex
           /\ call.stored = GivenIds
           /\ policyIndex' = GivenIds
           /\ \A id \in policyIndex \ GivenIds : policyStore'[id] = NoRule ]_vars

\* of two given rules one was stored and the store of the other failed,
\* after an indexed rule that was not given had been removed
C22_Witness ==
  /\ cacheCall.op = "refresh"
  /\ Cardinality(cacheCall.given) = 2
  /\ cacheCall.count = 1
  /\ \E id \in cacheCall.deleted :
       /\ id \notin { p.rule_id : p \in cacheCall.given }
       /\ policyStore[id] = NoRule
       /\ id \notin policyIndex

\* the read of the cache made by the evaluation in flight raised
CacheReadRaised == Evaluated /\ listing # NoListing /\ listing.raised

\* C23: when a cache command raises, store and delete return false, get
\* returns absent and list_active returns the empty sequence, and an
\* evaluate whose cache read raised returns the result computed against
\* the in-memory default rules: the failure result only when a default
\* rule raises on the request itself.
C23_CacheFailureIsConservative ==
  /\ \A policy \in RuleUniverse, outcome \in {"setex_raises", "sadd_raises"} :
       ~store_policy(policyStore, policyIndex, policy, outcome).returned
  /\ \A rule_id \in RuleIds, outcome \in {"delete_raises", "srem_raises"} :
       ~delete_policy(policyStore, policyIndex, rule_id, outcome).returned
  /\ \A rule_id \in RuleIds :
       get_policy(policyStore, rule_id, "get_raises") = NoRule
  /\ (listing # NoListing /\ listing.raised) => listing.policies = <<>>
  /\ CacheReadRaised =>
       /\ policies = DefaultPolicies
       /\ evaluation = evaluate(request, DefaultPolicies, evalMode)
       /\ ~Match(DefaultPolicies, request).raised =>
            /\ EvaluationError \notin Range(evaluation.denial_reasons)
            /\ evaluation.risk_score =
                 Clamp(SumModifiers(evaluation.matched_rules))

\* the cache holds an enabled, indexed rule for the request's action type,
\* the read raised, and the request was decided by a default rule
C23_Witness ==
  /\ CacheReadRaised
  /\ \E id \in policyIndex :
       /\ policyStore[id] # NoRule
       /\ policyStore[id].enabled
       /\ request.action_type \in policyStore[id].action_types
  /\ evaluation.matched_rules = <<"database_write_protection">>
  /\ evaluation.decision = "deny"

\* the ids of the built-in default rules
DefaultIds == { p.rule_id : p \in Range(DefaultPolicies) }

\* the index has no members or every indexed entry has expired
CacheEmpty ==
  policyIndex = {} \/ \A id \in policyIndex : policyStore[id] = NoRule

ProcessEnds == pc = "evaluated" /\ pc' = "processed"

\* process asks for an approval: request_approval stores a record and
\* dispatches the webhook
AsksApproval == nextApprovalId' # nextApprovalId

\* what the request in flight gets when the mode is m from its arrival to
\* its response: the response, and whether an approval is asked for
FixedModeResponse(m) ==
  process(request, evaluate(request, policies, m), m, nextApprovalId)

FixedModeAsks(m) ==
  /\ evaluate(request, policies, m).decision = "pending_approval"
  /\ m = "ENFORCE"

\* C25: with set_mode landing before, between or after evaluate and process
\* of a request, the response and the approval asked for or not are those
\* of the same request under one mode throughout, the one evaluate read or
\* the one process read; a request evaluated after set_mode returned is
\* evaluated under the mode it set.
C25_NoMixedOutcome ==
  [][ /\ ProcessEnds =>
           \E m \in {evalMode, mode} :
             /\ response' = FixedModeResponse(m)
             /\ AsksApproval <=> FixedModeAsks(m)
             /\ webhookLog' # webhookLog <=> FixedModeAsks(m)
             /\ approvalStore' # approvalStore => FixedModeAsks(m)
      /\ (pc = "idle" /\ pc' = "evaluated") =>
           /\ evalMode' = mode
           /\ evaluation' = evaluate(request', policies', mode)
    ]_vars

\* a request evaluated under SHADOW to shadow_logged and processed after
\* set_mode(ENFORCE) returned
C25_Witness ==
  /\ pc = "processed"
  /\ evalMode = "SHADOW"
  /\ procMode = "ENFORCE"
  /\ evaluation.decision = "shadow_logged"
  /\ response.forwarded

\* process rewrote the decision of the evaluation to shadow_logged
Coerced ==
  /\ pc = "processed"
  /\ evaluation.decision \in {"deny", "pending_approval"}
  /\ response.decision = "shadow_logged"

\* C26: the response of process carries the risk_level of the evaluation
\* and the request_id of the request, for every decision and mode, also
\* where the decision is coerced to shadow_logged.
C26_ResponseCarriesLevelAndId ==
  pc = "processed" =>
    /\ response.risk_level = evaluation.risk_level
    /\ response.request_id = request.request_id
    /\ evaluation.request_id = request.request_id

\* a critical evaluation of the second request id coerced to shadow_logged
C26_Witness ==
  /\ Coerced
  /\ procMode = "SHADOW"
  /\ evaluation.risk_level = "critical"
  /\ response.risk_level = "critical"
  /\ request.request_id = MaxRequestIds
  /\ response.request_id = MaxRequestIds

\* a refund whose parameters.amount is a number above 500
RefundAbove500(req) ==
  /\ req.action_type = "refund"
  /\ req.parameters.amount.kind = "num"
  /\ req.parameters.amount.num > 500

\* what C27 says of the evaluation e of a refund above 500
RefundEvaluation(e) ==
  /\ e.matched_rules = <<"refund_limit_500">>
  /\ e.risk_score = 100
  /\ e.risk_level = "critical"

\* what C27 says of the outcome r under mode m
RefundOutcome(r, m) ==
  IF m = "ENFORCE"
  THEN r.decision = "deny" /\ ~r.forwarded
  ELSE r.decision = "shadow_logged" /\ r.forwarded

\* C27: with the default rules every refund with a numeric amount above 500
\* evaluates to matched_rules = [refund_limit_500], risk_score 1.0 and
\* risk_level critical; under ENFORCE the outcome is deny and not
\* forwarded, under SHADOW it is shadow_logged and forwarded with the same
\* matched rules.
C27_RefundAbove500 ==
  /\ (Evaluated /\ policies = DefaultPolicies /\ RefundAbove500(request)) =>
       /\ RefundEvaluation(evaluation)
       /\ evaluation.decision =
            (IF evalMode = "ENFORCE" THEN "deny" ELSE "shadow_logged")
       /\ (pc = "processed" /\ procMode = evalMode) =>
            RefundOutcome(response, procMode)
  /\ \A req \in Requests, m \in GatewayMode :
       RefundAbove500(req) =>
         LET e == evaluate(req, DefaultPolicies, m) IN
         /\ RefundEvaluation(e)
         /\ RefundOutcome(process(req, e, m, nextApprovalId), m)

\* a refund of 750 evaluated and processed under SHADOW
C27_Witness ==
  /\ pc = "processed"
  /\ policies = DefaultPolicies
  /\ RefundAbove500(request)
  /\ evalMode = "SHADOW"
  /\ procMode = "SHADOW"
  /\ response.decision = "shadow_logged"
  /\ response.forwarded
  /\ evaluation.matched_rules = <<"refund_limit_500">>

\* a payment whose parameters.amount is a number above 10000, or an
\* admin_action
NeedsApproval(req) ==
  \/ /\ req.action_type = "payment"
     /\ req.parameters.amount.kind = "num"
     /\ req.parameters.amount.num > 10000
  \/ req.action_type = "admin_action"

\* what C28 says of the evaluation e of such a request under ENFORCE
ApprovalEvaluation(req, e) ==
  /\ e.matched_rules =
       (IF req.action_type = "payment" THEN <<"payment_limit_10000">>
        ELSE <<"admin_action_high_risk">>)
  /\ e.risk_score = 85
  /\ e.risk_level = "critical"
  /\ e.decision = "pending_approval"

\* the approval the response names is in the store with the 24 h TTL
ApprovalPersisted ==
  \E entry \in approvalStore :
    /\ entry.record.approval_id = response.approval_id
    /\ entry.record.request_id = request.request_id
    /\ entry.ttl = ApprovalTtl

\* the webhook was dispatched for the approval the response names
WebhookDispatched ==
  \E sent \in webhookLog : sent.payload.approval_id = response.approval_id

\* C28: with the default rules under ENFORCE every payment with a numeric
\* amount above 10000 and every admin_action evaluates to exactly one
\* matched rule (payment_limit_10000, respectively admin_action_high_risk),
\* risk_score 0.85, risk_level critical and decision pending_approval, and
\* process then persists an approval record with a 24 h TTL and dispatches
\* the webhook.
C28_ApprovalPersisted ==
  /\ ( /\ Evaluated
       /\ policies = DefaultPolicies
       /\ NeedsApproval(request)
       /\ evalMode = "ENFORCE" ) =>
       /\ ApprovalEvaluation(request, evaluation)
       /\ (pc = "processed" /\ procMode = "ENFORCE") =>
            /\ response.decision = "pending_approval"
            /\ response.approval_required
            /\ ApprovalPersisted
            /\ WebhookDispatched
  /\ \A req \in Requests :
       NeedsApproval(req) =>
         ApprovalEvaluation(req, evaluate(req, DefaultPolicies, "ENFORCE"))

\* a user_data_access whose context.justification is missing or a string
\* with fewer than 10 characters between its leading and trailing blanks
LacksJustification(req) ==
  /\ req.action_type = "user_data_access"
  /\ \/ req.context.justification.kind = "absent"
     \/ /\ req.context.justification.kind \in {"str", "pii"}
        /\ req.context.justification.body < 10

\* what C29 says of the evaluation e of such a request
UnjustifiedEvaluation(e) ==
  /\ e.matched_rules = <<"user_data_access">>
  /\ e.risk_score = 30
  /\ e.risk_level = "medium"
  /\ e.decision = "allow"
  /\ Len(e.denial_reasons) = 1
  /\ e.denial_reasons[1].kind = "justification"
  /\ e.denial_reasons[1].rule = "user_data_access"

\* what C29 says of the response r
AllowedAndForwarded(r) ==
  /\ r.decision = "allow"
  /\ r.status = "success"
  /\ r.forwarded
  /\ ~r.approval_required

\* C29: with the default rules every user_data_access whose justification
\* is missing or shorter than 10 characters after stripping evaluates to
\* matched_rules = [user_data_access], risk_score 0.3, risk_level medium
\* and decision allow, the result carrying the denial reason; process
\* returns allow with forwarded=true in both modes.
C29_UnjustifiedAccessAllowed ==
  /\ (Evaluated /\ policies = DefaultPolicies /\ LacksJustification(request))
       => /\ UnjustifiedEvaluation(evaluation)
          /\ pc = "processed" => AllowedAndForwarded(response)
  /\ \A req \in Requests, m \in GatewayMode :
       LacksJustification(req) =>
         LET e == evaluate(req, DefaultPolicies, m) IN
         /\ UnjustifiedEvaluation(e)
         /\ AllowedAndForwarded(process(req, e, m, nextApprovalId))

\* a user_data_access with a six-character justification processed under
\* ENFORCE
C29_Witness ==
  /\ pc = "processed"
  /\ policies = DefaultPolicies
  /\ LacksJustification(request)
  /\ request.context.justification.kind = "str"
  /\ procMode = "ENFORCE"
  /\ evaluation.denial_reasons # <<>>
  /\ response.forwarded

\* reasons[i] is the reason recorded for rule_ids[i], for every i, and no
\* rule is listed twice
Parallel(rule_ids, reasons) ==
  /\ Len(reasons) = Len(rule_ids)
  /\ \A i \in 1..Len(rule_ids) :
       /\ reasons[i].rule = rule_ids[i]
       /\ reasons[i] =
            _evaluate_conditions(RuleOf(rule_ids[i]), request,
                                 sanitize_dict(request.parameters)).reason
       /\ Violates(RuleOf(rule_ids[i]))
  /\ \A i, j \in 1..Len(rule_ids) : rule_ids[i] = rule_ids[j] => i = j

AnyAction ==
  {"refund", "payment", "database_write", "database_query",
   "user_data_access", "admin_action", "api_call"}

ConditionRules ==
  { PolicyRule("c", AnyAction, conds, 30, TRUE, 10) :
      conds \in
        { NoConditions,
          MaxAmountCond(500),
          ProtectedTablesCond(<<T_payments, T_users>>),
          MaxAffectedRowsCond(1000),
          RequireJustificationCond,
          [NoConditions EXCEPT !.keys = {"region"}],
          [MaxAmountCond(500) EXCEPT !.keys = {"max_amount", "region"}],
          [MaxAffectedRowsCond(1000) EXCEPT
             !.keys = {"protected_tables", "max_affected_rows"},
             !.protected_tables = <<T_users>>],
          [RequireJustificationCond EXCEPT
             !.keys = {"max_amount", "require_justification"},
             !.max_amount = 500] } }

\* a string with the case of its letters folded
Folded(s) == [i \in 1..Len(s) |-> LowerChar(s[i])]

\* the violations C31 lists, for a rule and a request
ListedViolation(policy, req) ==
  LET c == policy.conditions
      amount == req.parameters.amount
      affected == req.parameters.affected_rows
      lim == req.parameters.limit
      j == req.context.justification
  IN
  \/ c.keys = {}
  \/ /\ "max_amount" \in c.keys
     /\ amount.kind = "num"
     /\ amount.num > c.max_amount
  \/ /\ "protected_tables" \in c.keys
     /\ \E i \in 1..Len(c.protected_tables) :
          IsSubstring(Folded(c.protected_tables[i]),
                      Folded(req.target_resource))
  \/ /\ "max_affected_rows" \in c.keys
     /\ \E v \in {affected, lim} :
          v.kind = "num" /\ v.num > c.max_affected_rows
  \/ /\ "require_justification" \in c.keys
     /\ c.require_justification
     /\ j.kind # "num"
     /\ j.body < 10

\* the values on which the check of the rule raises: reached without an
\* earlier violation, a non-numeric affected_rows or limit under
\* max_affected_rows, or a non-string justification under
\* require_justification
CheckRaises(policy, req) ==
  LET c == policy.conditions
      nonNumeric == \E v \in {req.parameters.affected_rows,
                              req.parameters.limit} :
                      v.kind \notin {"num", "absent"}
      rowsRaise == "max_affected_rows" \in c.keys /\ nonNumeric
  IN
  /\ ~ListedViolation([policy EXCEPT !.conditions.keys =
                         (c.keys \cap {"max_amount", "protected_tables"})
                           \cup {"region"}], req)
  /\ \/ rowsRaise
     \/ /\ "require_justification" \in c.keys
        /\ c.require_justification
        /\ req.context.justification.kind = "num"
        /\ ~ListedViolation([policy EXCEPT !.conditions.keys =
                               (c.keys \cap {"max_affected_rows"})
                                 \cup {"region"}], req)

\* the rules of the evaluated list that apply to the request in flight
Applicable ==
  { p \in Range(policies) :
      p.enabled /\ request.action_type \in p.action_types }

Dispatched == http.stage = "authenticated" /\ http'.stage # "authenticated"

\* nothing of the request pipeline, the approvals or the audit log moves
PipelineUntouched ==
  /\ pc = "idle"
  /\ pc' = "idle"
  /\ UNCHANGED <<evalVars, procVars, approvalVars>>
  /\ lastAudit' = NoAudit

\* C32: for an authenticated request to the evaluate endpoint check(agent_id)
\* runs after authentication and before evaluate; when it returns
\* allowed=false the request is answered with 429 and neither evaluate, nor
\* process, nor the audit write is performed for it, and no approval record
\* is created.
C32_RateLimitUpstream ==
  [][ /\ (pc = "idle" /\ pc' = "evaluated") => http.stage = "admitted"
      /\ pc' # "idle" => http'.stage = "admitted"
      /\ (lastAudit' # lastAudit /\ lastAudit' # NoAudit) =>
           http.stage = "admitted" /\ pc = "processed"
      /\ (http.stage # "admitted" /\ http'.stage = "admitted") =>
           /\ Dispatched
           /\ lastCheck'.agent_id = http.agent_id
           /\ lastCheck'.is_allowed
      /\ (Dispatched /\ ~lastCheck'.is_allowed) =>
           /\ http' = HttpRequest("answered", http.agent_id, 429)
           /\ PipelineUntouched
      /\ http.stage = "answered" =>
           /\ http'.stage \in {"answered", "none"}
           /\ PipelineUntouched
    ]_vars

\* the third request of an agent inside one window has been answered with
\* 429 while an earlier request of the window had led to an approval
C32_Witness ==
  /\ http.stage = "answered"
  /\ http.status = 429
  /\ lastCheck.agent_id = http.agent_id
  /\ ~lastCheck.is_allowed
  /\ lastCheck.current_count > rate_limit_requests
  /\ pc = "idle"
  /\ approvalStore # {}

\* the approval ids of the records in the store and of the webhooks sent
StoredIds(store) == { rec.record.approval_id : rec \in store }
DispatchedIds(log) == { sent.payload.approval_id : sent \in log }

\* C33: on the approval path the ApprovalRequest is built with a fresh id,
\* then the record is persisted, then the webhook is dispatched, then the id
\* is returned; the webhook for an id is never dispatched before the store
\* of its record has been attempted, so that the record, when the store
\* succeeded, is there for a decision callback that the webhook triggers.
C33_StoreBeforeWebhook ==
  [][ /\ \A id \in DispatchedIds(webhookLog') \ DispatchedIds(webhookLog) :
           /\ pc = "approving"
           /\ pc' = "processed"
           /\ id = nextApprovalId - 1
           /\ response = NoResponse
           /\ response'.approval_id = id
           /\ response'.approval_required
      /\ \A id \in StoredIds(approvalStore') \ StoredIds(approvalStore) :
           /\ pc = "evaluated"
           /\ pc' = "approving"
           /\ id = nextApprovalId
           /\ id \notin DispatchedIds(webhookLog')
           /\ \A r \in answered : r.approval_id # id
      /\ (pc = "evaluated" /\ pc' = "approving") =>
           /\ nextApprovalId' = nextApprovalId + 1
           /\ webhookLog' = webhookLog
           /\ response' = NoResponse
      /\ (response' # NoResponse /\ response'.approval_required) =>
           response'.approval_id \in DispatchedIds(webhookLog')
    ]_vars

\* a decision callback has found and answered the approval whose webhook
\* was dispatched after its record had been stored
C33_Witness ==
  /\ \E r \in answered :
       /\ r.status = "approved"
       /\ r.approval_id \in DispatchedIds(webhookLog)
  /\ pc = "processed"
  /\ response.approval_required

\* C34: every approval_id returned in a pending_approval response
\* identifies a record that was persisted: once process has returned the
\* record is in the store under that id with its 24 h TTL (no decision has
\* been submitted and no TTL has run out in this specification), also when
\* the store was failing at the time of the request.
C34_ReturnedIdIsPersisted ==
  ( /\ pc = "processed"
    /\ response.decision = "pending_approval"
    /\ response.approval_id # NoApprovalId ) =>
      \E rec \in get_pending_approval(approvalStore, response.approval_id,
                                      TRUE) :
        /\ rec.record.request_id = request.request_id
        /\ rec.ttl = ApprovalTtl

\* every call on the policy cache has completed
WritersDone == \A w \in Writers : writer[w] = NoWrite

\* C35: in every state reached by any interleaving of store, delete and
\* refresh on the policy cache, once the operations have completed (here:
\* and none of their commands raised), get(rule_id) never returns an
\* enabled rule that list_active omits: a live entry has its rule_id in
\* the index.
C35_LiveRuleIsIndexed ==
  (WritersDone /\ cacheRaises = 0) =>
    \A rule_id \in RuleIds :
      LET found == get_policy(policyStore, rule_id, "ok") IN
      (found # NoRule /\ found.enabled) =>
        /\ rule_id \in policyIndex
        /\ \A order \in Orders(policyIndex) :
             found \in Range(get_all_policies(policyStore, order))

\* an evaluate has read the cache while writer w was inside
\* refresh_policies, with enabled rules cached before and enabled rules
\* given, and no command raised
EvaluatedDuringRefresh(w) ==
  /\ pc = "evaluated"
  /\ cacheRaises = 0
  /\ ~listing.raised
  /\ writer[w].op = "refresh"
  /\ writer[w].old # {}
  /\ \E p \in writer[w].given : p.enabled

\* C36: an evaluate that runs concurrently with refresh(new_rules), where
\* both the previously cached set and new_rules contain enabled rules,
\* evaluates the request only against rules drawn from the old set and/or
\* the new set; it never observes an empty cache and never applies the
\* built-in default rule set in the middle of a refresh.
C36_NoDefaultsDuringRefresh ==
  \A w \in Writers :
    EvaluatedDuringRefresh(w) =>
      /\ listing.policies # <<>>
      /\ Range(policies) \subseteq writer[w].old \cup writer[w].given
      /\ Range(policies) \cap Range(DefaultPolicies) = {}

\* no handler is inside check_rate_limit for the agent
NoCheckInFlight(a) ==
  \A h \in Handlers : check[h].pc = "idle" \/ check[h].agent_id # a

\* C37: a rate-limited agent always recovers. In every step, for every
\* agent: a check on its counter that completes without raising leaves the
\* counter with a TTL of at most W; a step never moves the expiry of a
\* window further away; and when the agent has sent nothing for W seconds
\* and no check of it is in flight, the count the next check increments
\* to is within the quota, so that the check answers allowed=true.
C37_AlwaysRecovers ==
  [][\A a \in Observed :
       /\ ( /\ lastCheck' # NoOutcome
            /\ lastCheck'.agent_id = a
            /\ ~lastCheck'.raised
            /\ rateCount'[a] > 0 ) =>
              rateTtl'[a] \in 1..rate_limit_window_seconds
       /\ rateTtl[a] # NoExpiry => rateTtl'[a] <= rateTtl[a]
       /\ ( /\ quiet[a] = rate_limit_window_seconds
            /\ NoCheckInFlight(a)
            /\ rateCount'[a] > rateCount[a] ) =>
              check_rate_limit(rateCount'[a]).is_allowed
    ]_vars

\* C38: when the decision endpoint accepts a decision for a pending
\* approval, the approval audit row it writes carries the request_id,
\* agent_id, action_type and risk_score of the original approval record,
\* the one the webhook was sent for, and not the placeholders (agent and
\* action "unknown", score 0, the approval id as request id).
C38_AuditCarriesRecord ==
  approvalAudit # NoApprovalAudit =>
    /\ approvalAudit.agent_id # "unknown"
    /\ approvalAudit.action_type # "unknown"
    /\ \E sent \in webhookLog :
         /\ sent.payload.approval_id = approvalAudit.approval_id
         /\ approvalAudit.request_id = sent.payload.request_id
         /\ approvalAudit.agent_id = sent.payload.agent_id
         /\ approvalAudit.action_type = sent.payload.action_type
         /\ approvalAudit.risk_score = sent.payload.risk_score

====
